---------------------------- MODULE Spec2Model ----------------------------
(*************************************************************************)
(* Model of the exercise setup scripts (ex01 .. ex20).  Every script is  *)
(* a straight-line program: a guard on its directories, file writes and  *)
(* git commands run as blocking subprocesses, then a printed report.     *)
(* The filesystem is a map from directory names to directory states; a   *)
(* directory holds a working tree (file name -> content) and possibly a  *)
(* git repository.  A branch is the sequence of its commits from the     *)
(* root, a commit is its message and its tree, so "c is reachable from   *)
(* b" is "c is an element of b" and "a is an ancestor of b" is "a is a   *)
(* prefix of b".  A file's content is the sequence of its lines.  Hashes *)
(* and timestamps are not modelled.                                      *)
(*************************************************************************)
EXTENDS Integers, Sequences, FiniteSets, TLC

VARIABLES
    script,     \* the script of this behaviour (one script per behaviour)
    fs,         \* directory name -> directory state
    pc,         \* "idle" (never run), "run" (a run is in progress), "done",
                \* "killed" (the process was killed during the run)
    ip,         \* index of the next statement of the run's program
    force,      \* --force of the current run
    update,     \* --update of the current run (ex15 only)
    pre,        \* fs when the current run was invoked
    exit,       \* exit status of the finished run (-1 while none)
    outcome,    \* "none", "ok", "rejected", "missing", "stepfail", "killed"
    reported,   \* the success report was printed
    ran,        \* indexes of the statements the run has started
    failed,     \* indexes of the git statements that exited non-zero
    extAt,      \* of these, the ones that failed for a reason outside the
                \* model (not because of what the directories hold)
    cause,      \* why the run raised: "none", "ext" (the tool failed for a
                \* reason outside the model), "state" (the directories made
                \* the statement fail)
    blame,      \* the directory whose state made the statement fail
    W,          \* directories the current run has changed
    prevOutcome,\* outcome of the run before the current one
    prevW,      \* directories the run before the current one changed
    prevForce,  \* --force of the run before the current one
    prevUpdate, \* --update of the run before the current one
    prevExtAt,  \* extAt of the run before the current one
    updRow,     \* --update runs finished since the last successful base
                \* provisioning (-1: not provisioned, 3: more than two)
    rowBase,    \* length of the remote's main when that row started
    rowClean,   \* no run of the row failed for an external reason
    conc        \* two invocations of the script running at the same time:
                \* for each, its position, its --force and what it has
                \* seen and done

vars == << script, fs, pc, ip, force, update, pre, exit, outcome,
           reported, ran, failed, extAt, cause, blame, W, prevOutcome, prevW,
           prevForce, prevUpdate, prevExtAt, updRow, rowBase, rowClean, conc >>

-----------------------------------------------------------------------------
(* Trees, commits, directories *)

EmptyTree == [x \in {} |-> << >>]

TreeSet(t, name, content) ==
    [x \in (DOMAIN t) \cup {name} |-> IF x = name THEN content ELSE t[x]]

IsPrefix(s, t) ==
    /\ Len(s) <= Len(t)
    /\ \A i \in 1..Len(s) : s[i] = t[i]

Last(s) == s[Len(s)]

Absent == [kind |-> "absent"]

NoRepo == [kind |-> "none"]

Dir(files, repo) == [kind |-> "dir", files |-> files, repo |-> repo]

EmptyDir == Dir(EmptyTree, NoRepo)

Exists(f, d) == f[d].kind = "dir"

IsRepo(f, d) == Exists(f, d) /\ f[d].repo.kind = "repo"

IsEmptyDir(f, d) == Exists(f, d) /\ f[d] = EmptyDir

Commit(msg, tree) == [msg |-> msg, tree |-> tree]

\* No tag: a tag is the commits up to the one it names, whether it is an
\* annotated tag, and its message.
NoTags == [t \in {} |-> [at |-> << >>, annotated |-> FALSE, msg |-> ""]]

Repo(bare, head, refs, index, origin, tracking) ==
    [kind |-> "repo", bare |-> bare, head |-> head, refs |-> refs,
     index |-> index, origin |-> origin, tracking |-> tracking,
     merging |-> "none", unmerged |-> {}, tags |-> NoTags]

NoRefs == [b \in {} |-> << >>]

BranchOf(r, b) == IF b \in DOMAIN r.refs THEN r.refs[b] ELSE << >>

HeadCommits(r) == BranchOf(r, r.head)

TipTree(commits) == IF commits = << >> THEN EmptyTree ELSE Last(commits).tree

HeadTree(r) == TipTree(HeadCommits(r))

RefSet(refs, b, commits) ==
    [x \in (DOMAIN refs) \cup {b} |-> IF x = b THEN commits ELSE refs[x]]

\* The commits of branch main of the repository in directory d (none when d
\* holds no repository).
MainOf(f, d) == IF IsRepo(f, d) THEN BranchOf(f[d].repo, "main") ELSE << >>


-----------------------------------------------------------------------------
(* Filesystem operations (shutil.rmtree, Path.mkdir, Path.write_text) *)

RmTree(f, d) == [f EXCEPT ![d] = Absent]

MkDir(f, d) == IF Exists(f, d) THEN f ELSE [f EXCEPT ![d] = EmptyDir]

WriteText(f, d, name, content) ==
    [f EXCEPT ![d].files = TreeSet(@, name, content)]

-----------------------------------------------------------------------------
(* The git commands the scripts run, as the state they leave on success *)

GitInit(f, cwd, branch) ==
    IF IsRepo(f, cwd)
    THEN f
    ELSE [f EXCEPT ![cwd].repo =
              Repo(FALSE, branch, NoRefs, EmptyTree, "none", NoRefs)]

\* git add <paths>: "." stages the whole working tree; a named path that is
\* gone from the working tree is staged as a deletion.
GitAdd(f, cwd, paths) ==
    LET d == f[cwd]
        r == d.repo
        present == paths \cap DOMAIN d.files
        gone == paths \ DOMAIN d.files
        index == IF "." \in paths
                 THEN d.files
                 ELSE [x \in ((DOMAIN r.index) \cup present) \ gone |->
                          IF x \in present THEN d.files[x] ELSE r.index[x]]
        unmerged == IF "." \in paths THEN {} ELSE r.unmerged \ paths
    IN [f EXCEPT ![cwd].repo.index = index, ![cwd].repo.unmerged = unmerged]

GitCommit(f, cwd, msg) ==
    LET r == f[cwd].repo
    IN [f EXCEPT ![cwd].repo.refs =
                     RefSet(@, r.head, Append(HeadCommits(r), Commit(msg, r.index))),
                 ![cwd].repo.merging = "none"]

\* git clone --bare src dst: every branch of src, no working tree.
GitCloneBare(f, src, dst) ==
    LET s == f[src].repo
    IN [f EXCEPT ![dst] =
            Dir(EmptyTree,
                [Repo(TRUE, s.head, s.refs, EmptyTree, src, NoRefs)
                    EXCEPT !.tags = s.tags])]

\* git clone src dst: the branch src's HEAD is on, checked out; the
\* remote-tracking refs are src's branches as they are now.
GitClone(f, src, dst) ==
    LET s == f[src].repo
        hc == HeadCommits(s)
        refs == IF hc = << >> THEN NoRefs ELSE [b \in {s.head} |-> hc]
    IN [f EXCEPT ![dst] =
            Dir(TipTree(hc),
                [Repo(FALSE, s.head, refs, TipTree(hc), src, s.refs)
                    EXCEPT !.tags = s.tags])]

\* git push (origin <current branch>): the remote's branch and the
\* remote-tracking ref move to the local tip.
GitPush(f, cwd) ==
    LET r == f[cwd].repo
    IN [f EXCEPT ![r.origin].repo.refs = RefSet(@, r.head, HeadCommits(r)),
                 ![cwd].repo.tracking = RefSet(@, r.head, HeadCommits(r))]

\* The tool refuses a push that is not a fast-forward of the remote branch.
PushRejected(f, cwd) ==
    LET r == f[cwd].repo
    IN \/ r.origin = "none"
       \/ ~IsRepo(f, r.origin)
       \/ HeadCommits(r) = << >>
       \/ ~IsPrefix(BranchOf(f[r.origin].repo, r.head), HeadCommits(r))

\* The tool refuses to clone from what is no repository and into a
\* directory that exists and is not empty.
CloneRefused(f, src, dst) ==
    \/ ~IsRepo(f, src)
    \/ (Exists(f, dst) /\ ~IsEmptyDir(f, dst))

\* git commit exits 1 with "nothing to commit" when the index equals the
\* tree of HEAD, and refuses to commit unmerged paths.
NothingToCommit(r) ==
    \/ r.unmerged # {}
    \/ (r.merging = "none" /\ r.index = HeadTree(r))

WorkRepo(f, cwd) == IsRepo(f, cwd) /\ ~f[cwd].repo.bare

\* A file of a tree, a line no file holds when the tree has no such file.
Get(t, x) == IF x \in DOMAIN t THEN t[x] ELSE << "(absent)" >>

DiffFiles(a, b) == {x \in (DOMAIN a) \cup (DOMAIN b) : Get(a, x) # Get(b, x)}

\* Tree t with the files that differ between trees from and to taken from to.
Switch(t, from, to) ==
    LET diff == DiffFiles(from, to)
    IN [x \in ((DOMAIN t) \ diff) \cup (diff \cap DOMAIN to) |->
           IF x \in diff THEN to[x] ELSE t[x]]

\* git checkout -b <branch>: a new branch at HEAD, working tree kept.
GitCheckoutB(f, cwd, b) ==
    LET r == f[cwd].repo
    IN [f EXCEPT ![cwd].repo.refs =
                     IF HeadCommits(r) = << >> THEN @ ELSE RefSet(@, b, HeadCommits(r)),
                 ![cwd].repo.head = b]

\* git branch <name>: a new branch at the current commit, HEAD stays.
GitBranch(f, cwd, b) ==
    [f EXCEPT ![cwd].repo.refs = RefSet(@, b, HeadCommits(f[cwd].repo))]

\* git tag -a <name> -m <msg>: an annotated tag on the current commit.
GitTag(f, cwd, name, msg) ==
    LET r == f[cwd].repo
    IN [f EXCEPT ![cwd].repo.tags =
            [t \in (DOMAIN r.tags) \cup {name} |->
                IF t = name
                THEN [at |-> HeadCommits(r), annotated |-> TRUE, msg |-> msg]
                ELSE r.tags[t]]]

\* git checkout <branch>: the files that differ between the two tips are
\* replaced in the working tree and in the index.
GitCheckout(f, cwd, b) ==
    LET r == f[cwd].repo
        to == TipTree(BranchOf(r, b))
    IN [f EXCEPT ![cwd].files = Switch(@, HeadTree(r), to),
                 ![cwd].repo.index = Switch(@, HeadTree(r), to),
                 ![cwd].repo.head = b]

\* The tool refuses a checkout that would overwrite a local change.
CheckoutRefused(f, cwd, b) ==
    LET r == f[cwd].repo
    IN \/ b \notin DOMAIN r.refs
       \/ r.unmerged # {}
       \/ \E x \in DiffFiles(HeadTree(r), TipTree(BranchOf(r, b))) :
             \/ Get(f[cwd].files, x) # Get(HeadTree(r), x)
             \/ Get(r.index, x) # Get(HeadTree(r), x)

\* The longest common prefix of two branches: their merge base.
RECURSIVE CommonPrefix(_, _)
CommonPrefix(a, b) ==
    IF a = << >> \/ b = << >> \/ Head(a) # Head(b)
    THEN << >>
    ELSE << Head(a) >> \o CommonPrefix(Tail(a), Tail(b))

Max(m, n) == IF m >= n THEN m ELSE n

\* Row i of the table of longest common subsequences of line sequences a
\* and b, from the row below it: cell j is the length of the longest common
\* subsequence of a[i..] and b[j..].  acc holds the cells right of j.
RECURSIVE LcsRow(_, _, _, _, _, _)
LcsRow(a, b, i, below, j, acc) ==
    IF j = 0 THEN acc
    ELSE LET cell == IF a[i] = b[j]
                     THEN below[j + 1] + 1
                     ELSE Max(below[j], Head(acc))
         IN CHOOSE row \in {LcsRow(a, b, i, below, j - 1, x) :
                                x \in {<< cell >> \o acc}} : TRUE

\* Rows i+1 .. Len(a)+1 are in acc; the result is the whole table.
RECURSIVE LcsRows(_, _, _, _)
LcsRows(a, b, i, acc) ==
    IF i = 0 THEN acc
    ELSE CHOOSE rows \in
             {LcsRows(a, b, i - 1, x) :
                 x \in {<< LcsRow(a, b, i, Head(acc), Len(b), << 0 >>) >> \o acc}} : TRUE

LcsTable(a, b) == LcsRows(a, b, Len(a), << [j \in 1..(Len(b) + 1) |-> 0] >>)

\* The pairs << i, j >> of lines a[i], b[j] a line diff keeps as unchanged.
RECURSIVE LcsWalk(_, _, _, _, _)
LcsWalk(a, b, t, i, j) ==
    IF i > Len(a) \/ j > Len(b) THEN {}
    ELSE IF a[i] = b[j] THEN {<< i, j >>} \cup LcsWalk(a, b, t, i + 1, j + 1)
    ELSE IF t[i + 1][j] >= t[i][j + 1] THEN LcsWalk(a, b, t, i + 1, j)
    ELSE LcsWalk(a, b, t, i, j + 1)

\* The number of lines two files share at their start, and at their end
\* (n lines at most).
RECURSIVE CommonHead(_, _, _)
CommonHead(a, b, n) ==
    IF n < Len(a) /\ n < Len(b) /\ a[n + 1] = b[n + 1]
    THEN CommonHead(a, b, n + 1)
    ELSE n

RECURSIVE CommonTail(_, _, _, _)
CommonTail(a, b, n, most) ==
    IF n < most /\ a[Len(a) - n] = b[Len(b) - n]
    THEN CommonTail(a, b, n + 1, most)
    ELSE n

\* Faulty variant of Matching: only the lines shared at both ends count as
\* unchanged, everything between them as one change.
MatchingEndsOnly(a, b) ==
    LET h == CommonHead(a, b, 0)
        t == CommonTail(a, b, 0, Max(0, (IF Len(a) <= Len(b) THEN Len(a) ELSE Len(b)) - h))
    IN {<< i, i >> : i \in 1..h}
          \cup {<< Len(a) - n, Len(b) - n >> : n \in 0..(t - 1)}

\* A line diff of a and b: the lines the files share at both ends are
\* unchanged, and between them a longest common subsequence is.
Matching(a, b) ==
    LET h == CommonHead(a, b, 0)
        t == CommonTail(a, b, 0, Max(0, (IF Len(a) <= Len(b) THEN Len(a) ELSE Len(b)) - h))
        ma == SubSeq(a, h + 1, Len(a) - t)
        mb == SubSeq(b, h + 1, Len(b) - t)
    IN {<< i, i >> : i \in 1..h}
          \cup {<< Len(a) - n, Len(b) - n >> : n \in 0..(t - 1)}
          \cup {<< pr[1] + h, pr[2] + h >> : pr \in LcsWalk(ma, mb, LcsTable(ma, mb), 1, 1)}

\* The line of the other file matched with line k of the base; the ends of
\* the files match each other.
MatchOf(m, k, baseLen, otherLen) ==
    IF k = 0 THEN 0
    ELSE IF k > baseLen THEN otherLen + 1
    ELSE (CHOOSE pr \in m : pr[1] = k)[2]

\* Three-way merge of the lines of one file, from base line k (unchanged on
\* both sides, or 0) on: up to the next line unchanged on both sides, the
\* side that changed is taken; where both changed, differently, both are
\* written between conflict markers.
RECURSIVE Merge3From(_, _, _, _, _, _, _, _)
Merge3From(o, a, b, ma, mb, stable, k, label) ==
    LET after == {n \in stable : n > k}
        next == IF after = {} THEN Len(o) + 1
                ELSE CHOOSE n \in after : \A n2 \in after : n <= n2
        so == SubSeq(o, k + 1, next - 1)
        sa == SubSeq(a, MatchOf(ma, k, Len(o), Len(a)) + 1,
                        MatchOf(ma, next, Len(o), Len(a)) - 1)
        sb == SubSeq(b, MatchOf(mb, k, Len(o), Len(b)) + 1,
                        MatchOf(mb, next, Len(o), Len(b)) - 1)
        chunk == IF sa = sb THEN sa
                 ELSE IF sa = so THEN sb
                 ELSE IF sb = so THEN sa
                 ELSE << "<<<<<<< HEAD" >> \o sa \o << "=======" >> \o sb
                          \o << ">>>>>>> " \o label >>
    IN chunk \o (IF next > Len(o) THEN << >>
                 ELSE << o[next] >>
                          \o Merge3From(o, a, b, ma, mb, stable, next, label))

Merge3(o, a, b, label) ==
    LET ma == Matching(o, a)
        mb == Matching(o, b)
        stable == {k \in 1..Len(o) :
                      (\E pr \in ma : pr[1] = k) /\ (\E pr \in mb : pr[1] = k)}
    IN Merge3From(o, a, b, ma, mb, stable, 0, label)

\* The conflict-marker blocks in the lines of a file.
ConflictBlocks(lines) == {i \in 1..Len(lines) : lines[i] = "<<<<<<< HEAD"}

\* The lines of a file of a tree, none when the tree has no such file.
LinesOf(t, x) == IF x \in DOMAIN t THEN t[x] ELSE << >>

\* The files both sides changed, differently, since the merge base.
BothChanged(base, ours, theirs) ==
    {x \in (DOMAIN ours) \cup (DOMAIN theirs) :
        /\ Get(ours, x) # Get(theirs, x)
        /\ Get(ours, x) # Get(base, x)
        /\ Get(theirs, x) # Get(base, x)}

\* Of these, the files the merge cannot settle: one side deleted the file,
\* or both changed the same lines.
ConflictFiles(base, ours, theirs) ==
    {x \in BothChanged(base, ours, theirs) :
        \/ x \notin DOMAIN ours
        \/ x \notin DOMAIN theirs
        \/ ConflictBlocks(Merge3(LinesOf(base, x), ours[x], theirs[x], "")) # {}}

\* The three-way merge of two trees: a file only one side changed is taken
\* from that side, a file both changed is merged line by line.
MergedTree(base, ours, theirs, label) ==
    LET both == BothChanged(base, ours, theirs)
        taken == Switch(ours, base, theirs)
    IN [x \in (DOMAIN taken) \cup both |->
           IF x \in both
           THEN IF x \notin DOMAIN ours THEN theirs[x]
                ELSE IF x \notin DOMAIN theirs THEN ours[x]
                ELSE Merge3(LinesOf(base, x), ours[x], theirs[x], label)
           ELSE taken[x]]

MergeConflicts(r, b) ==
    LET ours == HeadCommits(r)
        theirs == BranchOf(r, b)
    IN IF IsPrefix(theirs, ours) \/ IsPrefix(ours, theirs)
       THEN {}
       ELSE ConflictFiles(TipTree(CommonPrefix(ours, theirs)),
                          TipTree(ours), TipTree(theirs))

\* git merge <branch> exiting 0: already up to date, a fast-forward, or a
\* merge commit (whose second parent the model does not keep).
GitMerge(f, cwd, b) ==
    LET r == f[cwd].repo
        ours == HeadCommits(r)
        theirs == BranchOf(r, b)
        merged == MergedTree(TipTree(CommonPrefix(ours, theirs)),
                             TipTree(ours), TipTree(theirs), b)
    IN IF IsPrefix(theirs, ours) THEN f
       ELSE IF IsPrefix(ours, theirs)
       THEN [f EXCEPT ![cwd].files = Switch(@, TipTree(ours), TipTree(theirs)),
                      ![cwd].repo.index = TipTree(theirs),
                      ![cwd].repo.refs = RefSet(@, r.head, theirs)]
       ELSE [f EXCEPT ![cwd].files = Switch(@, TipTree(ours), merged),
                      ![cwd].repo.index = merged,
                      ![cwd].repo.refs =
                          RefSet(@, r.head, Append(ours, Commit("Merge branch " \o b, merged)))]

\* Faulty variant of GitMergeConflict: the merge is given up, nothing stays.
GitMergeGivenUp(f, cwd, b) == f

\* git merge <branch> exiting 1 on a conflict: the merge stays in progress,
\* the conflicting files are unmerged in the index and hold the markers.
GitMergeConflict(f, cwd, b) ==
    LET r == f[cwd].repo
        ours == HeadCommits(r)
        theirs == BranchOf(r, b)
        base == TipTree(CommonPrefix(ours, theirs))
        merged == MergedTree(base, TipTree(ours), TipTree(theirs), b)
        conflicts == ConflictFiles(base, TipTree(ours), TipTree(theirs))
    IN [f EXCEPT ![cwd].files = Switch(@, TipTree(ours), merged),
                 ![cwd].repo.index = [x \in (DOMAIN merged) \ conflicts |-> merged[x]],
                 ![cwd].repo.merging = b,
                 ![cwd].repo.unmerged = conflicts]

\* The tool refuses to start a merge: no such branch, a merge in progress,
\* or staged or local changes in the way.
MergeRefused(f, cwd, b) ==
    LET r == f[cwd].repo
    IN \/ b \notin DOMAIN r.refs
       \/ HeadCommits(r) = << >>
       \/ r.merging # "none"
       \/ r.unmerged # {}
       \/ r.index # HeadTree(r)
       \/ \E x \in DiffFiles(HeadTree(r), TipTree(BranchOf(r, b))) :
             Get(f[cwd].files, x) # Get(HeadTree(r), x)

-----------------------------------------------------------------------------
(* File contents: the lines the build_* functions return *)

\* page.html of ex09 up to the header's first line, between the header's
\* and the footer's own lines, and after them: the lines the three versions
\* share.
PageTop ==
    << "<!DOCTYPE html>", "<html lang=fr>", "<head>", "<meta charset=UTF-8>",
       "<title>Ma Page</title>", "<style>",
       "body { font-family: Arial, sans-serif; margin: 0; }",
       "header { padding: 1rem; background: #eee; }",
       "main { padding: 2rem; }",
       "footer { padding: 1rem; background: #eee; }",
       "</style>", "</head>", "<body>", "<header>" >>

PageMiddle ==
    << "</header>", "<main>", "<p>Contenu principal de la page.</p>",
       "</main>", "<footer>" >>

PageBottom == << "</footer>", "</body>", "</html>" >>

\* message.txt of ex08 around its slogan line.
Message(slogan) ==
    << "Bienvenue sur notre application !", "", slogan, "",
       "Merci de votre confiance." >>

\* config.json of ex17: the three versions differ in the lines of version,
\* environment and host.
ConfigJson(version, environment, host) ==
    << "{", "app: {", "name: MonApplication,", "version: " \o version \o ",",
       "environment: " \o environment, "},", "database: {",
       "host: " \o host \o ",", "port: 5432", "}", "}" >>

\* The return statement of multiply in version v of calc.js of ex20.
MultiplyReturn(v) ==
    CASE v \in {1, 2, 3} -> "    return a * b;"
      [] v = 4 -> "    return a + b;  // BUG ! Devrait etre a * b"
      [] OTHER -> "    return a + b;  // BUG toujours la !"

\* calc.js of ex20 in version v (build_calc_v1 .. build_calc_v6): a title,
\* the functions, the test lines.
CalcJs(v) ==
    LET Fn(name, body) == << "function " \o name \o "(a, b) {" >> \o body \o << "}", "" >>
        title == << "// Calculatrice - v" \o ToString(v), "" >>
        add == Fn("add", << "    return a + b;" >>)
        subtract == Fn("subtract", << "    return a - b;" >>)
        multiply == Fn("multiply", << MultiplyReturn(v) >>)
        divide == Fn("divide", << "    if (b === 0) return 'Error';", "    return a / b;" >>)
        power == Fn("power", << "    return Math.pow(a, b);" >>)
        modulo == Fn("modulo", << "    return a % b;" >>)
        tAdd == IF v <= 4 THEN "console.log('2 + 3 =', add(2, 3));        // Attendu: 5"
                ELSE "console.log('2 + 3 =', add(2, 3));"
        tSubtract == IF v <= 4 THEN "console.log('10 - 4 =', subtract(10, 4)); // Attendu: 6"
                     ELSE "console.log('10 - 4 =', subtract(10, 4));"
        tMultiply ==
            IF v <= 3 THEN "console.log('4 * 5 =', multiply(4, 5));  // Attendu: 20"
            ELSE IF v = 4
            THEN "console.log('4 * 5 =', multiply(4, 5));  // BUGGY: retourne 9 au lieu de 20 !"
            ELSE "console.log('4 * 5 =', multiply(4, 5));  // BUGGY"
        tDivide == IF v <= 4 THEN "console.log('20 / 4 =', divide(20, 4));  // Attendu: 5"
                   ELSE "console.log('20 / 4 =', divide(20, 4));"
    IN title \o add
        \o (IF v >= 2 THEN subtract ELSE << >>)
        \o multiply
        \o (IF v >= 3 THEN divide ELSE << >>)
        \o (IF v >= 5 THEN power ELSE << >>)
        \o (IF v >= 6 THEN modulo ELSE << >>)
        \o << "// Test", tAdd >>
        \o (IF v >= 2 THEN << tSubtract >> ELSE << >>)
        \o << tMultiply >>
        \o (IF v >= 3 THEN << tDivide >> ELSE << >>)
        \o (IF v >= 5 THEN << "console.log('2 ^ 8 =', power(2, 8));" >> ELSE << >>)
        \o (IF v >= 6 THEN << "console.log('17 % 5 =', modulo(17, 5));" >> ELSE << >>)

\* What multiply(a, b) returns in a calc.js: the value of the return
\* statement that follows the function's header (-1 when there is none).
MultiplyOf(lines, a, b) ==
    LET at == {i \in 1..Len(lines) - 1 : lines[i] = "function multiply(a, b) {"}
    IN IF at = {} THEN -1
       ELSE LET ret == lines[(CHOOSE i \in at : TRUE) + 1]
            IN CASE ret = "    return a * b;" -> a * b
                 [] ret \in {MultiplyReturn(4), MultiplyReturn(5)} -> a + b
                 [] OTHER -> -1

\* test.sh: exit 0 when multiply(4, 5) is 20.
TestPasses(tree) == "calc.js" \in DOMAIN tree /\ MultiplyOf(tree["calc.js"], 4, 5) = 20

\* config.yml of ex04 (build_config_original, build_config_modified).
ConfigYml(modified) ==
    << "# Configuration de l'application", "app:", "  name: MonApp", "  version: 1.0.0",
       IF modified THEN "  debug: true  # ERREUR : debug active en prod !"
                   ELSE "  debug: false",
       "", "database:", "  host: localhost", "  port: 5432",
       IF modified THEN "  name: test_db  # ERREUR : mauvaise base de donnees !"
                   ELSE "  name: production_db",
       "", "logging:",
       IF modified THEN "  level: debug" ELSE "  level: info",
       "  file: /var/log/app.log" >>

\* README.md of ex04 (build_readme_original, build_readme_modified).
ReadmeMd(modified) ==
    << "# MonApp", "", "Application de demonstration pour l'exercice Git.", "",
       "## Installation", "", "1. Cloner le depot", "2. Configurer config.yml",
       "3. Lancer l'application" >>
        \o (IF modified
            THEN << "", "## Nouveautes v1.1", "",
                    "- Ajout de nouvelles fonctionnalites",
                    "- Amelioration des performances" >>
            ELSE << >>)

\* The lines of the file a build_* function returns.  The files no command
\* of the scripts merges are one line named after their function.
Content(builder) ==
    CASE builder = "build_page_html_base" ->
            PageTop \o << "<h1>Titre du site</h1>" >>
                \o PageMiddle \o << "<p>Pied de page</p>" >> \o PageBottom
      [] builder = "build_page_html_design_v1" ->
            PageTop
                \o << "<h1>Site Moderne</h1>", "<nav>",
                      "<a href=#accueil>Accueil</a>",
                      "<a href=#services>Services</a>", "</nav>" >>
                \o PageMiddle
                \o << "<p>(c) 2025 Site Moderne - Design V1</p>",
                      "<p>Suivez-nous sur les reseaux sociaux</p>" >>
                \o PageBottom
      [] builder = "build_page_html_design_v2" ->
            PageTop
                \o << "<h1>Entreprise Corporate</h1>",
                      "<p class=tagline>Votre partenaire de confiance depuis 1990</p>" >>
                \o PageMiddle
                \o << "<p>Entreprise Corporate SARL - Mentions legales</p>",
                      "<p>Contact : contact@corporate.fr</p>" >>
                \o PageBottom
      [] builder = "build_message_base" ->
            Message("Notre slogan : Nous rendons votre vie plus simple.")
      [] builder = "build_message_client" ->
            Message("Notre slogan : La simplicite au service de nos clients.")
      [] builder = "build_message_interne" ->
            Message("Notre slogan : L'innovation au coeur de notre mission.")
      [] builder = "build_config_base" ->
            ConfigJson("1.0.0", "development", "localhost")
      [] builder = "build_config_remote" ->
            ConfigJson("1.1.0", "production", "db.production.com")
      [] builder = "build_config_local" ->
            ConfigJson("1.0.1", "staging", "localhost")
      [] builder = "build_config_original" -> ConfigYml(FALSE)
      [] builder = "build_config_modified" -> ConfigYml(TRUE)
      [] builder = "build_readme_original" -> ReadmeMd(FALSE)
      [] builder = "build_readme_modified" -> ReadmeMd(TRUE)
      [] builder = "build_calc_v1" -> CalcJs(1)
      [] builder = "build_calc_v2" -> CalcJs(2)
      [] builder = "build_calc_v3" -> CalcJs(3)
      [] builder = "build_calc_v4_buggy" -> CalcJs(4)
      [] builder = "build_calc_v5" -> CalcJs(5)
      [] builder = "build_calc_v6" -> CalcJs(6)
      [] OTHER -> << builder >>

-----------------------------------------------------------------------------
(* The scripts as programs: main() unfolded into its statements *)

\* A statement: op is what it does, cwd the directory it acts in, arg and
\* val its parameters, check whether a non-zero exit raises (subprocess.run's
\* check), fin the directory that the enclosing try block's finally clause
\* removes ("" outside a try block).
St(op, cwd, arg, val) ==
    [op |-> op, cwd |-> cwd, arg |-> arg, val |-> val, check |-> TRUE, fin |-> ""]

\* Faulty variant of InTry: the try block has no finally clause.
InTryNoFinally(step, d) == step

\* A statement inside a try block whose finally clause removes directory d.
InTry(step, d) == [step EXCEPT !.fin = d]

\* Faulty variant of NoCheck: check=False is dropped.
NoCheckDropped(step) == step

NoCheck(step) == [step EXCEPT !.check = FALSE]

GitOps == {"init", "add", "commit", "clone_bare", "clone", "push",
           "checkout_b", "checkout", "merge", "branch", "tag"}

FsOps == {"write", "mkdir", "rmtree", "rmtree_if_exists", "chmod"}

\* Faulty variant of ResetDirs: the first directory is deleted before the second is
\* checked, whatever --force says.
ResetDirsDeleteFirst(remote, target) ==
    << St("rmtree_if_exists", remote, "", ""), St("guard", target, "", "") >>

\* reset_dirs: one guard per directory, in the order of the loop.
ResetDirs(remote, target) ==
    << St("guard", remote, "", ""), St("guard", target, "", "") >>

\* setup_remote_repo of ex15
SetupRemoteRepo15 ==
    << St("mkdir", "_temp_init", "", ""),
       InTry(St("init", "_temp_init", "main", ""), "_temp_init"),
       InTry(St("write", "_temp_init", "README.md", "build_readme_content"), "_temp_init"),
       InTry(St("add", "_temp_init", {"."}, ""), "_temp_init"),
       InTry(St("commit", "_temp_init", "", "Initial commit : projet partage"), "_temp_init"),
       InTry(St("clone_bare", "", "_temp_init", "remote-repo.git"), "_temp_init"),
       St("rmtree", "_temp_init", "", "") >>

\* Faulty variant of SetupLocalClone15: the commit of the instructions is
\* pushed.
SetupLocalClone15Pushed ==
    << St("clone", "", "remote-repo.git", "ex15-remote"),
       St("write", "ex15-remote", "EXERCICE.md", "build_exercise_readme"),
       St("add", "ex15-remote", {"EXERCICE.md"}, ""),
       St("commit", "ex15-remote", "", "Ajout des consignes de l'exercice"),
       St("push", "ex15-remote", "", "") >>

\* setup_local_clone of ex15
SetupLocalClone15 ==
    << St("clone", "", "remote-repo.git", "ex15-remote"),
       St("write", "ex15-remote", "EXERCICE.md", "build_exercise_readme"),
       St("add", "ex15-remote", {"EXERCICE.md"}, ""),
       St("commit", "ex15-remote", "", "Ajout des consignes de l'exercice") >>

\* Faulty variant of SimulateRemoteUpdate: the update rebuilds the bare remote from
\* a fresh repository instead of pushing to it.
SimulateRemoteUpdateRecreate ==
    << St("require", "remote-repo.git", "", ""),
       St("rmtree_if_exists", "_temp_push", "", ""),
       St("mkdir", "_temp_push", "", ""),
       InTry(St("init", "_temp_push", "main", ""), "_temp_push"),
       InTry(St("write", "_temp_push", "README.md", "build_readme_updated"), "_temp_push"),
       InTry(St("add", "_temp_push", {"README.md"}, ""), "_temp_push"),
       InTry(St("commit", "_temp_push", "", "Mise a jour v1.1 : nouveautes et corrections"), "_temp_push"),
       InTry(St("rmtree", "remote-repo.git", "", ""), "_temp_push"),
       InTry(St("clone_bare", "", "_temp_push", "remote-repo.git"), "_temp_push"),
       St("rmtree", "_temp_push", "", "") >>

\* simulate_remote_update of ex15
SimulateRemoteUpdate ==
    << St("require", "remote-repo.git", "", ""),
       St("rmtree_if_exists", "_temp_push", "", ""),
       InTry(St("clone", "", "remote-repo.git", "_temp_push"), "_temp_push"),
       InTry(St("write", "_temp_push", "README.md", "build_readme_updated"), "_temp_push"),
       InTry(St("add", "_temp_push", {"README.md"}, ""), "_temp_push"),
       InTry(St("commit", "_temp_push", "", "Mise a jour v1.1 : nouveautes et corrections"), "_temp_push"),
       InTry(St("push", "_temp_push", "", ""), "_temp_push"),
       St("rmtree", "_temp_push", "", "") >>

\* Faulty variant of Main15: the guard runs before the mode is looked at.
Main15GuardFirst(up) ==
    ResetDirs("remote-repo.git", "ex15-remote")
        \o (IF up THEN SimulateRemoteUpdate
                  ELSE SetupRemoteRepo15 \o SetupLocalClone15)

\* main of ex15: --update runs the update alone; otherwise guard and set up.
Main15(up) ==
    IF up
    THEN SimulateRemoteUpdate
    ELSE ResetDirs("remote-repo.git", "ex15-remote")
             \o SetupRemoteRepo15 \o SetupLocalClone15

\* setup_remote_repo of ex16
SetupRemoteRepo16 ==
    << St("mkdir", "_temp_ex16", "", ""),
       InTry(St("init", "_temp_ex16", "main", ""), "_temp_ex16"),
       InTry(St("write", "_temp_ex16", "index.html", "build_index_html"), "_temp_ex16"),
       InTry(St("write", "_temp_ex16", "about.html", "build_about_html"), "_temp_ex16"),
       InTry(St("add", "_temp_ex16", {"."}, ""), "_temp_ex16"),
       InTry(St("commit", "_temp_ex16", "", "Initial commit : pages accueil et about"), "_temp_ex16"),
       InTry(St("clone_bare", "", "_temp_ex16", "remote-ex16.git"), "_temp_ex16"),
       St("rmtree", "_temp_ex16", "", "") >>

\* Faulty variant of SetupLocalClone16: the README commit is not pushed.
SetupLocalClone16Unpushed ==
    << St("clone", "", "remote-ex16.git", "ex16-push"),
       St("write", "ex16-push", "README.md", "build_readme_content"),
       St("add", "ex16-push", {"README.md"}, ""),
       St("commit", "ex16-push", "", "Ajout du README") >>

\* setup_local_clone of ex16
SetupLocalClone16 ==
    << St("clone", "", "remote-ex16.git", "ex16-push"),
       St("write", "ex16-push", "README.md", "build_readme_content"),
       St("add", "ex16-push", {"README.md"}, ""),
       St("commit", "ex16-push", "", "Ajout du README"),
       St("push", "ex16-push", "", "") >>

Main16 == ResetDirs("remote-ex16.git", "ex16-push") \o SetupRemoteRepo16 \o SetupLocalClone16

\* Faulty variant of SetupExercise17: the learner's clone is taken after the
\* colleague's push.
SetupExercise17CloneLate ==
    << St("mkdir", "_temp_ex17", "", ""),
       InTry(St("init", "_temp_ex17", "main", ""), "_temp_ex17"),
       InTry(St("write", "_temp_ex17", "config.json", "build_config_base"), "_temp_ex17"),
       InTry(St("write", "_temp_ex17", "README.md", "build_readme_content"), "_temp_ex17"),
       InTry(St("add", "_temp_ex17", {"."}, ""), "_temp_ex17"),
       InTry(St("commit", "_temp_ex17", "", "Initial commit : configuration de base"), "_temp_ex17"),
       InTry(St("clone_bare", "", "_temp_ex17", "remote-ex17.git"), "_temp_ex17"),
       St("rmtree", "_temp_ex17", "", ""),
       InTry(St("clone", "", "remote-ex17.git", "_temp_remote_ex17"), "_temp_remote_ex17"),
       InTry(St("write", "_temp_remote_ex17", "config.json", "build_config_remote"), "_temp_remote_ex17"),
       InTry(St("add", "_temp_remote_ex17", {"config.json"}, ""), "_temp_remote_ex17"),
       InTry(St("commit", "_temp_remote_ex17", "", "Mise en production v1.1.0"), "_temp_remote_ex17"),
       InTry(St("push", "_temp_remote_ex17", "", ""), "_temp_remote_ex17"),
       St("rmtree", "_temp_remote_ex17", "", ""),
       St("clone", "", "remote-ex17.git", "ex17-pull-conflict"),
       St("write", "ex17-pull-conflict", "config.json", "build_config_local"),
       St("add", "ex17-pull-conflict", {"config.json"}, ""),
       St("commit", "ex17-pull-conflict", "", "Configuration staging v1.0.1") >>

\* setup_exercise of ex17
SetupExercise17 ==
    << St("mkdir", "_temp_ex17", "", ""),
       InTry(St("init", "_temp_ex17", "main", ""), "_temp_ex17"),
       InTry(St("write", "_temp_ex17", "config.json", "build_config_base"), "_temp_ex17"),
       InTry(St("write", "_temp_ex17", "README.md", "build_readme_content"), "_temp_ex17"),
       InTry(St("add", "_temp_ex17", {"."}, ""), "_temp_ex17"),
       InTry(St("commit", "_temp_ex17", "", "Initial commit : configuration de base"), "_temp_ex17"),
       InTry(St("clone_bare", "", "_temp_ex17", "remote-ex17.git"), "_temp_ex17"),
       St("rmtree", "_temp_ex17", "", ""),
       St("clone", "", "remote-ex17.git", "ex17-pull-conflict"),
       InTry(St("clone", "", "remote-ex17.git", "_temp_remote_ex17"), "_temp_remote_ex17"),
       InTry(St("write", "_temp_remote_ex17", "config.json", "build_config_remote"), "_temp_remote_ex17"),
       InTry(St("add", "_temp_remote_ex17", {"config.json"}, ""), "_temp_remote_ex17"),
       InTry(St("commit", "_temp_remote_ex17", "", "Mise en production v1.1.0"), "_temp_remote_ex17"),
       InTry(St("push", "_temp_remote_ex17", "", ""), "_temp_remote_ex17"),
       St("rmtree", "_temp_remote_ex17", "", ""),
       St("write", "ex17-pull-conflict", "config.json", "build_config_local"),
       St("add", "ex17-pull-conflict", {"config.json"}, ""),
       St("commit", "ex17-pull-conflict", "", "Configuration staging v1.0.1") >>

Main17 == ResetDirs("remote-ex17.git", "ex17-pull-conflict") \o SetupExercise17

\* reset_exercise_dir: the guard, then mkdir(parents=True, exist_ok=True).
ResetExerciseDir(d) == << St("guard", d, "", ""), St("mkdir", d, "", "") >>

\* The branch a plain "git init" starts on (init.defaultBranch unset).
DefaultBranch == "master"

\* main of ex01: no repository, one file.
Main01 ==
    ResetExerciseDir("ex01-init")
        \o << St("write", "ex01-init", "README.md", "build_readme_content") >>

\* setup_git_repo of ex03
SetupGitRepo03 ==
    << St("write", "ex03-diff", "README.md", "build_readme_content"),
       St("write", "ex03-diff", "article.md", "build_article_content"),
       St("init", "ex03-diff", DefaultBranch, ""),
       St("add", "ex03-diff", {"README.md", "article.md"}, ""),
       St("commit", "ex03-diff", "", "Initial commit : ajout de article.md") >>

Main03 == ResetExerciseDir("ex03-diff") \o SetupGitRepo03

\* setup_git_repo of ex08: the last merge runs with check=False.
SetupGitRepo08 ==
    << St("write", "ex08-conflict-simple", "README.md", "build_readme_content"),
       St("write", "ex08-conflict-simple", "message.txt", "build_message_base"),
       St("init", "ex08-conflict-simple", "main", ""),
       St("add", "ex08-conflict-simple", {"."}, ""),
       St("commit", "ex08-conflict-simple", "", "Initial commit : message de base"),
       St("checkout_b", "ex08-conflict-simple", "version-client", ""),
       St("write", "ex08-conflict-simple", "message.txt", "build_message_client"),
       St("add", "ex08-conflict-simple", {"message.txt"}, ""),
       St("commit", "ex08-conflict-simple", "", "Slogan oriente client"),
       St("checkout", "ex08-conflict-simple", "main", ""),
       St("checkout_b", "ex08-conflict-simple", "version-interne", ""),
       St("write", "ex08-conflict-simple", "message.txt", "build_message_interne"),
       St("add", "ex08-conflict-simple", {"message.txt"}, ""),
       St("commit", "ex08-conflict-simple", "", "Slogan oriente innovation"),
       St("checkout", "ex08-conflict-simple", "version-client", ""),
       NoCheck(St("merge", "ex08-conflict-simple", "version-interne", "")) >>

Main08 == ResetExerciseDir("ex08-conflict-simple") \o SetupGitRepo08

\* setup_git_repo of ex09: the last merge runs with check=False.
SetupGitRepo09 ==
    << St("write", "ex09-conflict-complex", "README.md", "build_readme_content"),
       St("write", "ex09-conflict-complex", "page.html", "build_page_html_base"),
       St("init", "ex09-conflict-complex", "main", ""),
       St("add", "ex09-conflict-complex", {"."}, ""),
       St("commit", "ex09-conflict-complex", "", "Initial commit : page de base"),
       St("checkout_b", "ex09-conflict-complex", "design-v1", ""),
       St("write", "ex09-conflict-complex", "page.html", "build_page_html_design_v1"),
       St("add", "ex09-conflict-complex", {"page.html"}, ""),
       St("commit", "ex09-conflict-complex", "",
          "Design moderne avec navigation et reseaux sociaux"),
       St("checkout", "ex09-conflict-complex", "main", ""),
       St("checkout_b", "ex09-conflict-complex", "design-v2", ""),
       St("write", "ex09-conflict-complex", "page.html", "build_page_html_design_v2"),
       St("add", "ex09-conflict-complex", {"page.html"}, ""),
       St("commit", "ex09-conflict-complex", "",
          "Design corporate avec tagline et contact"),
       St("checkout", "ex09-conflict-complex", "design-v1", ""),
       NoCheck(St("merge", "ex09-conflict-complex", "design-v2", "")) >>

Main09 == ResetExerciseDir("ex09-conflict-complex") \o SetupGitRepo09

\* Faulty variant of SetupGitRepo06: main gets a commit of its own after the
\* feature branch left it.
SetupGitRepo06Diverged ==
    << St("write", "ex06-merge-ff", "README.md", "build_readme_content"),
       St("write", "ex06-merge-ff", "index.html", "build_index_html_base"),
       St("init", "ex06-merge-ff", "main", ""),
       St("add", "ex06-merge-ff", {"."}, ""),
       St("commit", "ex06-merge-ff", "", "Initial commit : page de base"),
       St("checkout_b", "ex06-merge-ff", "feature-footer", ""),
       St("write", "ex06-merge-ff", "index.html", "build_index_html_with_footer"),
       St("add", "ex06-merge-ff", {"index.html"}, ""),
       St("commit", "ex06-merge-ff", "", "Ajout du footer"),
       St("checkout", "ex06-merge-ff", "main", ""),
       St("write", "ex06-merge-ff", "README.md", "build_readme_changed"),
       St("add", "ex06-merge-ff", {"README.md"}, ""),
       St("commit", "ex06-merge-ff", "", "Mise a jour du README") >>

\* setup_git_repo of ex06
SetupGitRepo06 ==
    << St("write", "ex06-merge-ff", "README.md", "build_readme_content"),
       St("write", "ex06-merge-ff", "index.html", "build_index_html_base"),
       St("init", "ex06-merge-ff", "main", ""),
       St("add", "ex06-merge-ff", {"."}, ""),
       St("commit", "ex06-merge-ff", "", "Initial commit : page de base"),
       St("checkout_b", "ex06-merge-ff", "feature-footer", ""),
       St("write", "ex06-merge-ff", "index.html", "build_index_html_with_footer"),
       St("add", "ex06-merge-ff", {"index.html"}, ""),
       St("commit", "ex06-merge-ff", "", "Ajout du footer"),
       St("checkout", "ex06-merge-ff", "main", "") >>

Main06 == ResetExerciseDir("ex06-merge-ff") \o SetupGitRepo06

\* Faulty variant of SetupGitRepo13: the script stays on main at the end.
SetupGitRepo13StayOnMain ==
    << St("init", "ex13-rebase", "main", ""),
       St("write", "ex13-rebase", "README.md", "build_readme_content"),
       St("write", "ex13-rebase", "index.html", "build_index_html_base"),
       St("add", "ex13-rebase", {"."}, ""),
       St("commit", "ex13-rebase", "", "Initial commit"),
       St("checkout_b", "ex13-rebase", "feature-content", ""),
       St("write", "ex13-rebase", "content.md", "build_content_md_v1"),
       St("add", "ex13-rebase", {"content.md"}, ""),
       St("commit", "ex13-rebase", "", "Ajout article 1 : Introduction a Git"),
       St("write", "ex13-rebase", "content.md", "build_content_md_v2"),
       St("add", "ex13-rebase", {"content.md"}, ""),
       St("commit", "ex13-rebase", "", "Ajout article 2 : Les branches"),
       St("checkout", "ex13-rebase", "main", ""),
       St("write", "ex13-rebase", "index.html", "build_index_html_with_nav"),
       St("add", "ex13-rebase", {"index.html"}, ""),
       St("commit", "ex13-rebase", "", "Ajout de la navigation"),
       St("write", "ex13-rebase", "index.html", "build_index_html_with_footer"),
       St("add", "ex13-rebase", {"index.html"}, ""),
       St("commit", "ex13-rebase", "", "Ajout du footer") >>

\* setup_git_repo of ex13
SetupGitRepo13 ==
    << St("init", "ex13-rebase", "main", ""),
       St("write", "ex13-rebase", "README.md", "build_readme_content"),
       St("write", "ex13-rebase", "index.html", "build_index_html_base"),
       St("add", "ex13-rebase", {"."}, ""),
       St("commit", "ex13-rebase", "", "Initial commit"),
       St("checkout_b", "ex13-rebase", "feature-content", ""),
       St("write", "ex13-rebase", "content.md", "build_content_md_v1"),
       St("add", "ex13-rebase", {"content.md"}, ""),
       St("commit", "ex13-rebase", "", "Ajout article 1 : Introduction a Git"),
       St("write", "ex13-rebase", "content.md", "build_content_md_v2"),
       St("add", "ex13-rebase", {"content.md"}, ""),
       St("commit", "ex13-rebase", "", "Ajout article 2 : Les branches"),
       St("checkout", "ex13-rebase", "main", ""),
       St("write", "ex13-rebase", "index.html", "build_index_html_with_nav"),
       St("add", "ex13-rebase", {"index.html"}, ""),
       St("commit", "ex13-rebase", "", "Ajout de la navigation"),
       St("write", "ex13-rebase", "index.html", "build_index_html_with_footer"),
       St("add", "ex13-rebase", {"index.html"}, ""),
       St("commit", "ex13-rebase", "", "Ajout du footer"),
       St("checkout", "ex13-rebase", "feature-content", "") >>

Main13 == ResetExerciseDir("ex13-rebase") \o SetupGitRepo13

\* Faulty variant of SetupGitRepo04: the modifications are staged.
SetupGitRepo04Staged ==
    << St("write", "ex04-restore", "EXERCICE.md", "build_exercise_readme"),
       St("write", "ex04-restore", "config.yml", "build_config_original"),
       St("write", "ex04-restore", "README.md", "build_readme_original"),
       St("init", "ex04-restore", DefaultBranch, ""),
       St("add", "ex04-restore", {"."}, ""),
       St("commit", "ex04-restore", "", "Initial commit : configuration de base"),
       St("write", "ex04-restore", "config.yml", "build_config_modified"),
       St("write", "ex04-restore", "README.md", "build_readme_modified"),
       St("add", "ex04-restore", {"."}, "") >>

\* setup_git_repo of ex04
SetupGitRepo04 ==
    << St("write", "ex04-restore", "EXERCICE.md", "build_exercise_readme"),
       St("write", "ex04-restore", "config.yml", "build_config_original"),
       St("write", "ex04-restore", "README.md", "build_readme_original"),
       St("init", "ex04-restore", DefaultBranch, ""),
       St("add", "ex04-restore", {"."}, ""),
       St("commit", "ex04-restore", "", "Initial commit : configuration de base"),
       St("write", "ex04-restore", "config.yml", "build_config_modified"),
       St("write", "ex04-restore", "README.md", "build_readme_modified") >>

Main04 == ResetExerciseDir("ex04-restore") \o SetupGitRepo04

\* Faulty variant of SetupGitRepo18: the tag is made after the last commit.
SetupGitRepo18TagLast ==
    << St("init", "ex18-tags", "main", ""),
       St("write", "ex18-tags", "README.md", "build_readme_content"),
       St("write", "ex18-tags", "app.js", "build_app_v1"),
       St("add", "ex18-tags", {"."}, ""),
       St("commit", "ex18-tags", "", "Initial commit : version 0.1"),
       St("write", "ex18-tags", "app.js", "build_app_v2"),
       St("add", "ex18-tags", {"app.js"}, ""),
       St("commit", "ex18-tags", "", "Ajout du chargement de configuration (v0.5)"),
       St("write", "ex18-tags", "app.js", "build_app_v3"),
       St("add", "ex18-tags", {"app.js"}, ""),
       St("commit", "ex18-tags", "", "Version beta avec interface UI (v0.9)"),
       St("write", "ex18-tags", "app.js", "build_app_v4"),
       St("add", "ex18-tags", {"app.js"}, ""),
       St("commit", "ex18-tags", "", "Release stable v1.0"),
       St("tag", "ex18-tags", "v0.9.0", "Version 0.9.0 - Beta") >>

\* setup_git_repo of ex18
SetupGitRepo18 ==
    << St("init", "ex18-tags", "main", ""),
       St("write", "ex18-tags", "README.md", "build_readme_content"),
       St("write", "ex18-tags", "app.js", "build_app_v1"),
       St("add", "ex18-tags", {"."}, ""),
       St("commit", "ex18-tags", "", "Initial commit : version 0.1"),
       St("write", "ex18-tags", "app.js", "build_app_v2"),
       St("add", "ex18-tags", {"app.js"}, ""),
       St("commit", "ex18-tags", "", "Ajout du chargement de configuration (v0.5)"),
       St("write", "ex18-tags", "app.js", "build_app_v3"),
       St("add", "ex18-tags", {"app.js"}, ""),
       St("commit", "ex18-tags", "", "Version beta avec interface UI (v0.9)"),
       St("tag", "ex18-tags", "v0.9.0", "Version 0.9.0 - Beta"),
       St("write", "ex18-tags", "app.js", "build_app_v4"),
       St("add", "ex18-tags", {"app.js"}, ""),
       St("commit", "ex18-tags", "", "Release stable v1.0") >>

Main18 == ResetExerciseDir("ex18-tags") \o SetupGitRepo18

\* Faulty variant of SetupGitRepo19: release is created after the commits
\* of feature-a.
SetupGitRepo19LateRelease ==
    << St("init", "ex19-cherry-pick", "main", ""),
       St("write", "ex19-cherry-pick", "README.md", "build_readme_content"),
       St("write", "ex19-cherry-pick", "utils.js", "build_utils_base"),
       St("add", "ex19-cherry-pick", {"."}, ""),
       St("commit", "ex19-cherry-pick", "", "Initial commit : utilitaires de base"),
       St("checkout_b", "ex19-cherry-pick", "feature-a", ""),
       St("write", "ex19-cherry-pick", "utils.js", "build_utils_feature_a_wip"),
       St("add", "ex19-cherry-pick", {"utils.js"}, ""),
       St("commit", "ex19-cherry-pick", "", "WIP: ajout de formatDateTime"),
       St("write", "ex19-cherry-pick", "utils.js", "build_utils_feature_a_bugfix"),
       St("add", "ex19-cherry-pick", {"utils.js"}, ""),
       St("commit", "ex19-cherry-pick", "",
          "Bugfix: calculateTotal prend en compte les quantites"),
       St("write", "ex19-cherry-pick", "utils.js", "build_utils_feature_a_more"),
       St("add", "ex19-cherry-pick", {"utils.js"}, ""),
       St("commit", "ex19-cherry-pick", "", "Ajout de formatCurrency"),
       St("branch", "ex19-cherry-pick", "release", ""),
       St("checkout", "ex19-cherry-pick", "release", "") >>

\* setup_git_repo of ex19
SetupGitRepo19 ==
    << St("init", "ex19-cherry-pick", "main", ""),
       St("write", "ex19-cherry-pick", "README.md", "build_readme_content"),
       St("write", "ex19-cherry-pick", "utils.js", "build_utils_base"),
       St("add", "ex19-cherry-pick", {"."}, ""),
       St("commit", "ex19-cherry-pick", "", "Initial commit : utilitaires de base"),
       St("branch", "ex19-cherry-pick", "release", ""),
       St("checkout_b", "ex19-cherry-pick", "feature-a", ""),
       St("write", "ex19-cherry-pick", "utils.js", "build_utils_feature_a_wip"),
       St("add", "ex19-cherry-pick", {"utils.js"}, ""),
       St("commit", "ex19-cherry-pick", "", "WIP: ajout de formatDateTime"),
       St("write", "ex19-cherry-pick", "utils.js", "build_utils_feature_a_bugfix"),
       St("add", "ex19-cherry-pick", {"utils.js"}, ""),
       St("commit", "ex19-cherry-pick", "",
          "Bugfix: calculateTotal prend en compte les quantites"),
       St("write", "ex19-cherry-pick", "utils.js", "build_utils_feature_a_more"),
       St("add", "ex19-cherry-pick", {"utils.js"}, ""),
       St("commit", "ex19-cherry-pick", "", "Ajout de formatCurrency"),
       St("checkout", "ex19-cherry-pick", "release", "") >>

Main19 == ResetExerciseDir("ex19-cherry-pick") \o SetupGitRepo19

\* Faulty variant of SetupGitRepo20: the fifth commit takes the third
\* version of calc.js back.
SetupGitRepo20FixedInV5 ==
    << St("init", "ex20-bisect", "main", ""),
       St("write", "ex20-bisect", "README.md", "build_readme_content"),
       St("write", "ex20-bisect", "calc.js", "build_calc_v1"),
       St("write", "ex20-bisect", "test.sh", "build_test_script"),
       St("chmod", "ex20-bisect", "test.sh", ""),
       St("add", "ex20-bisect", {"."}, ""),
       St("commit", "ex20-bisect", "", "v1: add et multiply de base"),
       St("write", "ex20-bisect", "calc.js", "build_calc_v2"),
       St("add", "ex20-bisect", {"calc.js"}, ""),
       St("commit", "ex20-bisect", "", "v2: ajout de subtract"),
       St("write", "ex20-bisect", "calc.js", "build_calc_v3"),
       St("add", "ex20-bisect", {"calc.js"}, ""),
       St("commit", "ex20-bisect", "", "v3: ajout de divide"),
       St("write", "ex20-bisect", "calc.js", "build_calc_v4_buggy"),
       St("add", "ex20-bisect", {"calc.js"}, ""),
       St("commit", "ex20-bisect", "", "v4: refactoring du code"),
       St("write", "ex20-bisect", "calc.js", "build_calc_v3"),
       St("add", "ex20-bisect", {"calc.js"}, ""),
       St("commit", "ex20-bisect", "", "v5: ajout de power"),
       St("write", "ex20-bisect", "calc.js", "build_calc_v6"),
       St("add", "ex20-bisect", {"calc.js"}, ""),
       St("commit", "ex20-bisect", "", "v6: ajout de modulo") >>

\* setup_git_repo of ex20
SetupGitRepo20 ==
    << St("init", "ex20-bisect", "main", ""),
       St("write", "ex20-bisect", "README.md", "build_readme_content"),
       St("write", "ex20-bisect", "calc.js", "build_calc_v1"),
       St("write", "ex20-bisect", "test.sh", "build_test_script"),
       St("chmod", "ex20-bisect", "test.sh", ""),
       St("add", "ex20-bisect", {"."}, ""),
       St("commit", "ex20-bisect", "", "v1: add et multiply de base"),
       St("write", "ex20-bisect", "calc.js", "build_calc_v2"),
       St("add", "ex20-bisect", {"calc.js"}, ""),
       St("commit", "ex20-bisect", "", "v2: ajout de subtract"),
       St("write", "ex20-bisect", "calc.js", "build_calc_v3"),
       St("add", "ex20-bisect", {"calc.js"}, ""),
       St("commit", "ex20-bisect", "", "v3: ajout de divide"),
       St("write", "ex20-bisect", "calc.js", "build_calc_v4_buggy"),
       St("add", "ex20-bisect", {"calc.js"}, ""),
       St("commit", "ex20-bisect", "", "v4: refactoring du code"),
       St("write", "ex20-bisect", "calc.js", "build_calc_v5"),
       St("add", "ex20-bisect", {"calc.js"}, ""),
       St("commit", "ex20-bisect", "", "v5: ajout de power"),
       St("write", "ex20-bisect", "calc.js", "build_calc_v6"),
       St("add", "ex20-bisect", {"calc.js"}, ""),
       St("commit", "ex20-bisect", "", "v6: ajout de modulo") >>

Main20 == ResetExerciseDir("ex20-bisect") \o SetupGitRepo20

Scripts == {"ex01", "ex03", "ex06", "ex08", "ex09", "ex13", "ex15", "ex16", "ex17"}

\* The directory the learner works in, the bare remote ("" when the script
\* has none) and the scratch directories of a script.
Target(s) ==
    CASE s = "ex01" -> "ex01-init"
      [] s = "ex03" -> "ex03-diff"
      [] s = "ex06" -> "ex06-merge-ff"
      [] s = "ex08" -> "ex08-conflict-simple"
      [] s = "ex09" -> "ex09-conflict-complex"
      [] s = "ex13" -> "ex13-rebase"
      [] s = "ex15" -> "ex15-remote"
      [] s = "ex16" -> "ex16-push"
      [] s = "ex17" -> "ex17-pull-conflict"
      [] s = "ex04" -> "ex04-restore"
      [] s = "ex18" -> "ex18-tags"
      [] s = "ex19" -> "ex19-cherry-pick"
      [] s = "ex20" -> "ex20-bisect"

Remote(s) ==
    CASE s = "ex15" -> "remote-repo.git"
      [] s = "ex16" -> "remote-ex16.git"
      [] s = "ex17" -> "remote-ex17.git"
      [] OTHER -> ""

Scratch(s) ==
    CASE s = "ex15" -> {"_temp_init", "_temp_push"}
      [] s = "ex16" -> {"_temp_ex16"}
      [] s = "ex17" -> {"_temp_ex17", "_temp_remote_ex17"}
      [] OTHER -> {}

Dirs(s) == ({Target(s), Remote(s)} \cup Scratch(s)) \ {""}

HasUpdate(s) == s = "ex15"

Program(s, up) ==
    CASE s = "ex01" -> Main01
      [] s = "ex03" -> Main03
      [] s = "ex06" -> Main06
      [] s = "ex08" -> Main08
      [] s = "ex09" -> Main09
      [] s = "ex13" -> Main13
      [] s = "ex15" -> Main15(up)
      [] s = "ex16" -> Main16
      [] s = "ex17" -> Main17
      [] s = "ex04" -> Main04
      [] s = "ex18" -> Main18
      [] s = "ex19" -> Main19
      [] s = "ex20" -> Main20

-----------------------------------------------------------------------------
(* Whether a statement fails in a given filesystem, and what it does *)

\* The statement cannot succeed in f: the subprocess exits non-zero or the
\* Python call raises.
StateFails(f, s) ==
    CASE s.op = "write" -> ~Exists(f, s.cwd)
      [] s.op = "rmtree" -> ~Exists(f, s.cwd)
      [] s.op = "init" -> ~Exists(f, s.cwd)
      [] s.op = "add" ->
            \/ ~WorkRepo(f, s.cwd)
            \/ /\ "." \notin s.arg
               /\ \E x \in s.arg :
                     x \notin DOMAIN f[s.cwd].files /\ x \notin DOMAIN f[s.cwd].repo.index
      [] s.op = "commit" -> ~WorkRepo(f, s.cwd) \/ NothingToCommit(f[s.cwd].repo)
      [] s.op \in {"clone", "clone_bare"} -> CloneRefused(f, s.arg, s.val)
      [] s.op = "push" -> ~WorkRepo(f, s.cwd) \/ PushRejected(f, s.cwd)
      [] s.op = "checkout_b" ->
            ~WorkRepo(f, s.cwd) \/ s.arg \in DOMAIN f[s.cwd].repo.refs
      [] s.op = "checkout" -> ~WorkRepo(f, s.cwd) \/ CheckoutRefused(f, s.cwd, s.arg)
      [] s.op = "merge" ->
            \/ ~WorkRepo(f, s.cwd)
            \/ MergeRefused(f, s.cwd, s.arg)
            \/ MergeConflicts(f[s.cwd].repo, s.arg) # {}
      [] s.op = "branch" ->
            IF ~WorkRepo(f, s.cwd) THEN TRUE
            ELSE HeadCommits(f[s.cwd].repo) = << >> \/ s.arg \in DOMAIN f[s.cwd].repo.refs
      [] s.op = "tag" ->
            IF ~WorkRepo(f, s.cwd) THEN TRUE
            ELSE HeadCommits(f[s.cwd].repo) = << >> \/ s.arg \in DOMAIN f[s.cwd].repo.tags
      [] s.op = "chmod" ->
            IF ~Exists(f, s.cwd) THEN TRUE ELSE s.arg \notin DOMAIN f[s.cwd].files
      [] OTHER -> FALSE

\* The directory whose state makes the statement fail.
BlameOf(f, s) ==
    CASE s.op \in {"clone", "clone_bare"} ->
            IF ~IsRepo(f, s.arg) THEN s.arg ELSE s.val
      [] s.op = "push" ->
            IF WorkRepo(f, s.cwd) /\ f[s.cwd].repo.origin \in DOMAIN f
            THEN f[s.cwd].repo.origin ELSE s.cwd
      [] OTHER -> s.cwd

\* The filesystem after the statement succeeded.
Effect(f, s) ==
    CASE s.op = "write" -> WriteText(f, s.cwd, s.arg, Content(s.val))
      [] s.op = "mkdir" -> MkDir(f, s.cwd)
      [] s.op = "rmtree" -> RmTree(f, s.cwd)
      [] s.op = "rmtree_if_exists" -> IF Exists(f, s.cwd) THEN RmTree(f, s.cwd) ELSE f
      [] s.op = "init" -> GitInit(f, s.cwd, s.arg)
      [] s.op = "add" -> GitAdd(f, s.cwd, s.arg)
      [] s.op = "commit" -> GitCommit(f, s.cwd, s.val)
      [] s.op = "clone_bare" -> GitCloneBare(f, s.arg, s.val)
      [] s.op = "clone" -> GitClone(f, s.arg, s.val)
      [] s.op = "push" -> GitPush(f, s.cwd)
      [] s.op = "checkout_b" -> GitCheckoutB(f, s.cwd, s.arg)
      [] s.op = "checkout" -> GitCheckout(f, s.cwd, s.arg)
      [] s.op = "merge" -> GitMerge(f, s.cwd, s.arg)
      [] s.op = "branch" -> GitBranch(f, s.cwd, s.arg)
      [] s.op = "tag" -> GitTag(f, s.cwd, s.arg, s.val)
      [] s.op = "chmod" -> f

\* The filesystem after the statement failed because of the directories: a
\* merge that stops on a conflict leaves the conflict in the working tree
\* and the index; any other failed command leaves the directories as they
\* were.
FailEffect(f, s) ==
    IF /\ s.op = "merge"
       /\ WorkRepo(f, s.cwd)
       /\ ~MergeRefused(f, s.cwd, s.arg)
    THEN GitMergeConflict(f, s.cwd, s.arg)
    ELSE f

\* Faulty variant of Finally: the failure path also cleans the target away.
FinallyCleansTarget(f, d) ==
    [x \in DOMAIN f |-> IF x \in {d, Target(script)} THEN Absent ELSE f[x]]

\* Faulty variant of Finally: the scratch directory is not removed when a statement
\* raises.
FinallySkipped(f, d) == f

\* The finally clause of the try block a raising statement is in:
\* shutil.rmtree of the scratch directory (which raises in turn when the
\* directory is not there; the run ends with status 1 either way).
Finally(f, d) == IF d # "" /\ Exists(f, d) THEN RmTree(f, d) ELSE f

\* Faulty variant of GuardRejects: the flag is read the wrong way round.
GuardRejectsInverted(f, d, fo) == Exists(f, d) /\ fo

\* Faulty variant of GuardRejects: only the learner's directory is protected.
GuardRejectsTargetOnly(f, d, fo) == Exists(f, d) /\ ~fo /\ d = Target(script)

\* Faulty variant of GuardRejects: the guard lets every invocation through.
GuardRejectsNever(f, d, fo) == FALSE

\* reset_dirs / reset_exercise_dir: an existing directory ends the run
\* unless --force is given, and is deleted when it is.
GuardRejects(f, d, fo) == Exists(f, d) /\ ~fo

\* Faulty variant of GuardEffect: the existing directory is kept and reused.
GuardEffectKeep(f, d) == f

GuardEffect(f, d) == IF Exists(f, d) THEN RmTree(f, d) ELSE f

\* Faulty variant of RequireFails: the remote's existence is not checked.
RequireNeverFails(f, d) == FALSE

\* simulate_remote_update: the bare remote must exist.
RequireFails(f, d) == ~Exists(f, d)

\* Faulty variant of Tolerated: check=False is not honoured.
ToleratedNever(s) == FALSE

\* Faulty variant of Tolerated: every git command runs with check=False.
ToleratedAlways(s) == TRUE

\* A statement whose non-zero exit is ignored (check=False).
Tolerated(s) == ~s.check

Changed(f, g) == {d \in DOMAIN f : f[d] # g[d]}

-----------------------------------------------------------------------------
(* Initial states: what the directories may hold before the first run *)

\* A learner's earlier work: a repository with a commit and a file of theirs.
LearnerDir ==
    LET tree == [x \in {"notes.txt"} |-> << "learner work" >>]
    IN Dir(tree, Repo(FALSE, "main",
                      [b \in {"main"} |-> << Commit("learner commit", tree) >>],
                      tree, "none", NoRefs))

\* A directory that is no repository and holds a file.
StaleDir == Dir([x \in {"stale.txt"} |-> << "stale" >>], NoRepo)

InitialStates(s, d) ==
    IF d = Target(s) THEN {Absent, LearnerDir}
    ELSE IF d = Remote(s) THEN {Absent, StaleDir}
    ELSE {Absent, EmptyDir, StaleDir}

\* The two concurrent invocations, not started.
Procs == {1, 2}

\* For each: pc and ip as for a single run; force its --force; checked:
\* its guard has seen the directory and is about to delete it; passed: the
\* guard let it through; sawAbsent: the directory was absent when its guard
\* looked; wrote: it has changed the filesystem; outcome as for a single run.
ConcIdle ==
    [q \in Procs |-> [pc |-> "idle", ip |-> 1, force |-> FALSE,
                      checked |-> FALSE, passed |-> FALSE, sawAbsent |-> FALSE,
                      wrote |-> FALSE, outcome |-> "none"]]

Init ==
    /\ script \in Scripts
    /\ fs \in {f \in [Dirs(script) -> {Absent, EmptyDir, StaleDir, LearnerDir}] :
                  \A d \in Dirs(script) : f[d] \in InitialStates(script, d)}
    /\ pc = "idle"
    /\ ip = 1
    /\ force = FALSE
    /\ update = FALSE
    /\ pre = fs
    /\ exit = -1
    /\ outcome = "none"
    /\ reported = FALSE
    /\ ran = {}
    /\ failed = {}
    /\ extAt = {}
    /\ cause = "none"
    /\ blame = ""
    /\ W = {}
    /\ prevOutcome = "none"
    /\ prevW = {}
    /\ prevForce = FALSE
    /\ prevUpdate = FALSE
    /\ prevExtAt = {}
    /\ updRow = -1
    /\ rowBase = 0
    /\ rowClean = TRUE
    /\ conc = ConcIdle

-----------------------------------------------------------------------------
(* Actions *)

\* The statements of the current run: main() unfolded.
Prog == Program(script, update)

Cur == Prog[ip]

Running == pc = "run" /\ ip <= Len(Prog)

\* The row of --update runs after a finished run with outcome oc.
RowAfter(oc) ==
    IF ~update THEN (IF oc = "ok" THEN 0 ELSE -1)
    ELSE IF updRow = -1 THEN -1
    ELSE IF updRow >= 2 THEN 3
    ELSE updRow + 1

\* The run ends: the process exits with status ex, leaving filesystem f.
Finish(oc, ex, f, c, b) ==
    /\ pc' = "done"
    /\ outcome' = oc
    /\ exit' = ex
    /\ fs' = f
    /\ cause' = c
    /\ blame' = b
    /\ W' = W \cup Changed(fs, f)
    /\ updRow' = RowAfter(oc)
    /\ rowBase' = IF ~update /\ oc = "ok" /\ Remote(script) # ""
                  THEN Len(MainOf(f, Remote(script)))
                  ELSE rowBase
    /\ rowClean' = IF ~update THEN TRUE ELSE rowClean /\ c # "ext"
    /\ UNCHANGED << script, ip, force, update, pre, prevOutcome, prevW,
                    prevForce, prevUpdate, prevExtAt, conc >>

\* The statement at ip is done and left filesystem f: go on to the next.
Advance(f) ==
    /\ fs' = f
    /\ ip' = ip + 1
    /\ ran' = ran \cup {ip}
    /\ W' = W \cup Changed(fs, f)
    /\ UNCHANGED << script, pc, force, update, pre, exit, outcome, reported,
                    cause, blame, prevOutcome, prevW, prevForce, prevUpdate,
                    prevExtAt, updRow, rowBase, rowClean, conc >>

\* The script is started (python3 exNN_..._setup.py [--force] [--update]).
Invoke(fo, up) ==
    /\ pc \in {"idle", "done", "killed"}
    /\ up => HasUpdate(script)
    /\ pc' = "run"
    /\ ip' = 1
    /\ force' = fo
    /\ update' = up
    /\ pre' = fs
    /\ exit' = -1
    /\ outcome' = "none"
    /\ reported' = FALSE
    /\ ran' = {}
    /\ failed' = {}
    /\ extAt' = {}
    /\ cause' = "none"
    /\ blame' = ""
    /\ W' = {}
    /\ prevOutcome' = outcome
    /\ prevW' = W
    /\ prevForce' = force
    /\ prevUpdate' = update
    /\ prevExtAt' = extAt
    /\ UNCHANGED << script, fs, updRow, rowBase, rowClean, conc >>

\* One iteration of the guard: the directory is absent, or --force is given
\* and it is deleted.
GuardStep ==
    /\ Running
    /\ Cur.op = "guard"
    /\ ~GuardRejects(fs, Cur.cwd, force)
    /\ UNCHANGED << failed, extAt >>
    /\ Advance(GuardEffect(fs, Cur.cwd))

\* The guard finds the directory and --force is absent: sys.exit(1).
GuardExit ==
    /\ Running
    /\ Cur.op = "guard"
    /\ GuardRejects(fs, Cur.cwd, force)
    /\ ran' = ran \cup {ip}
    /\ UNCHANGED << reported, failed, extAt >>
    /\ Finish("rejected", 1, fs, "none", Cur.cwd)

\* --update: the bare remote is there.
RequireStep ==
    /\ Running
    /\ Cur.op = "require"
    /\ ~RequireFails(fs, Cur.cwd)
    /\ UNCHANGED << failed, extAt >>
    /\ Advance(fs)

\* --update: the bare remote is missing: sys.exit(1).
RequireExit ==
    /\ Running
    /\ Cur.op = "require"
    /\ RequireFails(fs, Cur.cwd)
    /\ ran' = ran \cup {ip}
    /\ UNCHANGED << reported, failed, extAt >>
    /\ Finish("missing", 1, fs, "none", Cur.cwd)

\* A file or directory statement of the script succeeds.
FsStep ==
    /\ Running
    /\ Cur.op \in FsOps
    /\ ~StateFails(fs, Cur)
    /\ UNCHANGED << failed, extAt >>
    /\ Advance(Effect(fs, Cur))

\* A git command exits 0.
GitStep ==
    /\ Running
    /\ Cur.op \in GitOps
    /\ ~StateFails(fs, Cur)
    /\ UNCHANGED << failed, extAt >>
    /\ Advance(Effect(fs, Cur))

\* A statement raises: a git command run with check=True exits non-zero
\* (because of the directories, or for a reason outside the model), or a
\* file statement raises.  The finally clause of the enclosing try block
\* runs, the exception reaches the top and the process exits with status 1.
StepRaises ==
    /\ Running
    /\ Cur.op \in GitOps \cup FsOps
    /\ \E c \in {"ext", "state"} :
          /\ c = "state" => StateFails(fs, Cur)
          /\ c = "ext" => Cur.op \in GitOps /\ ~StateFails(fs, Cur)
          /\ Cur.op \in GitOps => ~Tolerated(Cur)
          /\ ran' = ran \cup {ip}
          /\ failed' = IF Cur.op \in GitOps THEN failed \cup {ip} ELSE failed
          /\ extAt' = IF c = "ext" THEN extAt \cup {ip} ELSE extAt
          /\ reported' = reported
          /\ Finish("stepfail", 1,
                    Finally(IF c = "state" THEN FailEffect(fs, Cur) ELSE fs, Cur.fin),
                    c, IF c = "state" THEN BlameOf(fs, Cur) ELSE "")

\* A git command run with check=False exits non-zero, because of the
\* directories (the merge stops on a conflict) or for a reason outside the
\* model (the command changes nothing): the script goes on.
StepTolerated ==
    /\ Running
    /\ Cur.op \in GitOps
    /\ Tolerated(Cur)
    /\ failed' = failed \cup {ip}
    /\ \E c \in {"ext", "state"} :
          /\ c = "state" => StateFails(fs, Cur)
          /\ extAt' = IF c = "ext" THEN extAt \cup {ip} ELSE extAt
          /\ Advance(IF c = "state" THEN FailEffect(fs, Cur) ELSE fs)

\* Every statement is done: the report is printed and main returns 0.
Report ==
    /\ pc = "run"
    /\ ip > Len(Prog)
    /\ reported' = TRUE
    /\ UNCHANGED << ran, failed, extAt >>
    /\ Finish("ok", 0, fs, "none", "")

Next ==
    \/ \E fo \in BOOLEAN, up \in BOOLEAN : Invoke(fo, up)
    \/ GuardStep
    \/ GuardExit
    \/ RequireStep
    \/ RequireExit
    \/ FsStep
    \/ GitStep
    \/ StepRaises
    \/ StepTolerated
    \/ Report

Spec == Init /\ [][Next]_vars

\* The process is killed between two statements of a run: nothing more of
\* the script executes, no finally clause either.
Kill ==
    /\ pc = "run"
    /\ pc' = "killed"
    /\ outcome' = "killed"
    /\ exit' = 137
    /\ updRow' = -1
    /\ UNCHANGED << script, fs, ip, force, update, pre, reported, ran, failed,
                    extAt, cause, blame, W, prevOutcome, prevW, prevForce,
                    prevUpdate, prevExtAt, rowBase, rowClean, conc >>

NextKill ==
    \/ Next
    \/ Kill

\* The scripts that build one local repository and are run on their own.
LocalScripts == {"ex04", "ex18", "ex19", "ex20"}

InitLocal ==
    /\ script \in LocalScripts
    /\ fs \in {f \in [Dirs(script) -> {Absent, EmptyDir, StaleDir, LearnerDir}] :
                  \A d \in Dirs(script) : f[d] \in InitialStates(script, d)}
    /\ pc = "idle"
    /\ ip = 1
    /\ force = FALSE
    /\ update = FALSE
    /\ pre = fs
    /\ exit = -1
    /\ outcome = "none"
    /\ reported = FALSE
    /\ ran = {}
    /\ failed = {}
    /\ extAt = {}
    /\ cause = "none"
    /\ blame = ""
    /\ W = {}
    /\ prevOutcome = "none"
    /\ prevW = {}
    /\ prevForce = FALSE
    /\ prevUpdate = FALSE
    /\ prevExtAt = {}
    /\ updRow = -1
    /\ rowBase = 0
    /\ rowClean = TRUE
    /\ conc = ConcIdle

\* These scripts have no --update and no git command run with check=False.
NextLocal ==
    \/ \E fo \in BOOLEAN : Invoke(fo, FALSE)
    \/ GuardStep
    \/ GuardExit
    \/ FsStep
    \/ GitStep
    \/ StepRaises
    \/ Report

SpecLocal == InitLocal /\ [][NextLocal]_vars

\* The runs of a script, any of which may be killed.
SpecKill == Init /\ [][NextKill]_vars

-----------------------------------------------------------------------------
(* Two invocations of the same script at the same time, on the same
   directories: each executes main() statement by statement, the statements
   of the two interleave.  reset_exercise_dir is two steps: exists(), then
   rmtree(). *)

ConcScripts == {"ex01", "ex03"}

ConcProg == Program(script, FALSE)

ConcCur(q) == ConcProg[conc[q].ip]

ConcRunning(q) == conc[q].pc = "run" /\ conc[q].ip <= Len(ConcProg)

\* Everything but the filesystem and the two invocations stays as it is.
ConcFrame ==
    UNCHANGED << script, pc, ip, force, update, pre, exit, outcome, reported,
                 ran, failed, extAt, cause, blame, W, prevOutcome, prevW,
                 prevForce, prevUpdate, prevExtAt, updRow, rowBase, rowClean >>

ConcInvoke(q, fo) ==
    /\ conc[q].pc = "idle"
    /\ conc' = [conc EXCEPT ![q].pc = "run", ![q].force = fo]
    /\ fs' = fs
    /\ ConcFrame

\* The guard looks: the directory is absent (the guard is passed), or it is
\* there and --force is given (rmtree comes next).
ConcGuardCheck(q) ==
    /\ ConcRunning(q)
    /\ ConcCur(q).op = "guard"
    /\ ~conc[q].checked
    /\ ~GuardRejects(fs, ConcCur(q).cwd, conc[q].force)
    /\ conc' = IF Exists(fs, ConcCur(q).cwd)
               THEN [conc EXCEPT ![q].checked = TRUE]
               ELSE [conc EXCEPT ![q].ip = @ + 1, ![q].passed = TRUE,
                                 ![q].sawAbsent = TRUE]
    /\ fs' = fs
    /\ ConcFrame

\* The guard finds the directory and --force is absent: sys.exit(1).
ConcGuardExit(q) ==
    /\ ConcRunning(q)
    /\ ConcCur(q).op = "guard"
    /\ ~conc[q].checked
    /\ GuardRejects(fs, ConcCur(q).cwd, conc[q].force)
    /\ conc' = [conc EXCEPT ![q].pc = "done", ![q].outcome = "rejected"]
    /\ fs' = fs
    /\ ConcFrame

\* The guard's rmtree: it deletes the directory, or raises when the other
\* invocation has deleted it in between.
ConcGuardDelete(q) ==
    /\ ConcRunning(q)
    /\ ConcCur(q).op = "guard"
    /\ conc[q].checked
    /\ IF Exists(fs, ConcCur(q).cwd)
       THEN /\ fs' = GuardEffect(fs, ConcCur(q).cwd)
            /\ conc' = [conc EXCEPT ![q].ip = @ + 1, ![q].checked = FALSE,
                                    ![q].passed = TRUE, ![q].wrote = TRUE]
       ELSE /\ fs' = fs
            /\ conc' = [conc EXCEPT ![q].pc = "done", ![q].checked = FALSE,
                                    ![q].outcome = "stepfail"]
    /\ ConcFrame

\* A file statement or a git command of invocation q succeeds.
ConcStep(q) ==
    /\ ConcRunning(q)
    /\ ConcCur(q).op \in FsOps \cup GitOps
    /\ ~StateFails(fs, ConcCur(q))
    /\ fs' = Effect(fs, ConcCur(q))
    /\ conc' = [conc EXCEPT ![q].ip = @ + 1, ![q].wrote = TRUE]
    /\ ConcFrame

\* A statement of invocation q raises because of what the directory holds
\* by now.
ConcRaises(q) ==
    /\ ConcRunning(q)
    /\ ConcCur(q).op \in FsOps \cup GitOps
    /\ StateFails(fs, ConcCur(q)) = TRUE
    /\ fs' = Finally(FailEffect(fs, ConcCur(q)), ConcCur(q).fin)
    /\ conc' = [conc EXCEPT ![q].pc = "done", ![q].outcome = "stepfail"]
    /\ ConcFrame

ConcReport(q) ==
    /\ conc[q].pc = "run"
    /\ conc[q].ip > Len(ConcProg)
    /\ conc' = [conc EXCEPT ![q].pc = "done", ![q].outcome = "ok"]
    /\ fs' = fs
    /\ ConcFrame

InitConc == Init /\ script \in ConcScripts

NextConc ==
    \E q \in Procs :
        \/ \E fo \in BOOLEAN : ConcInvoke(q, fo)
        \/ ConcGuardCheck(q)
        \/ ConcGuardExit(q)
        \/ ConcGuardDelete(q)
        \/ ConcStep(q)
        \/ ConcRaises(q)
        \/ ConcReport(q)

SpecConc == InitConc /\ [][NextConc]_vars

-----------------------------------------------------------------------------
(* Properties *)

RemoteScripts == {"ex15", "ex16", "ex17"}

\* The index of the guard statement of the target directory.
TargetGuardIdx ==
    CHOOSE i \in 1..Len(Prog) : Prog[i].op = "guard" /\ Prog[i].cwd = Target(script)

\* Nothing of the learner's earlier work is in directory state d: neither
\* its file, in the working tree or the index, nor its commit, on a branch
\* or a remote-tracking ref.
LearnerFree(d) ==
    /\ "notes.txt" \notin DOMAIN d.files
    /\ d.repo.kind = "repo" =>
          /\ "notes.txt" \notin DOMAIN d.repo.index
          /\ \A b \in DOMAIN d.repo.refs :
                \A i \in 1..Len(d.repo.refs[b]) : d.repo.refs[b][i].msg # "learner commit"
          /\ \A b \in DOMAIN d.repo.tracking :
                \A i \in 1..Len(d.repo.tracking[b]) :
                    d.repo.tracking[b][i].msg # "learner commit"

\* C1, as stated: in every run of every script, when the target directory
\* exists at the start and --force is not given, the run ends with exit
\* status 1 and nothing was deleted, created or written and no git command
\* ran.
C1_AsStated ==
    (pc = "done" /\ Exists(pre, Target(script)) /\ ~force) =>
        /\ exit = 1
        /\ fs = pre
        /\ \A i \in ran : Prog[i].op \notin GitOps

\* C1, amended: in every provisioning run (every run but ex15 --update,
\* which does not run the guard), when the target directory exists at the
\* start and --force is not given, the filesystem stays what it was during
\* the whole run, no statement but a guard is started, and the run ends
\* rejected with exit status 1 and without the report.
C1_GuardRejectsUntouched ==
    (pc # "idle" /\ ~update /\ Exists(pre, Target(script)) /\ ~force) =>
        /\ fs = pre
        /\ W = {}
        /\ failed = {}
        /\ \A i \in ran : Prog[i].op = "guard"
        /\ pc = "done" => (exit = 1 /\ outcome = "rejected" /\ ~reported)

C1_Witness ==
    /\ script = "ex03"
    /\ pc = "done"
    /\ ~force
    /\ pre["ex03-diff"] = LearnerDir
    /\ outcome = "rejected"
    /\ exit = 1

\* C2, as stated: in every run with --force whose target directory exists
\* at the start, the directory is deleted and created fresh, so that after
\* a successful run the directory was replaced by this run and nothing of
\* the learner's earlier work is in it.
C2_AsStated ==
    (pc = "done" /\ outcome = "ok" /\ force /\ Exists(pre, Target(script))) =>
        /\ Target(script) \in W
        /\ pre[Target(script)] = LearnerDir => LearnerFree(fs[Target(script)])

\* C2, amended: in every provisioning run (every run but ex15 --update,
\* which ignores --force) with --force whose target directory exists at the
\* start, the directory is gone right after its guard, before any statement
\* that writes; and after a successful run the directory exists and nothing
\* of the learner's earlier work (file or commit) is in it.
C2_ForceRecreates ==
    (pc # "idle" /\ ~update /\ force /\ Exists(pre, Target(script))) =>
        /\ (pc = "run" /\ ip = TargetGuardIdx + 1) => ~Exists(fs, Target(script))
        /\ (\E i \in ran : Prog[i].op # "guard") => Target(script) \in W
        /\ (pc = "done" /\ outcome = "ok") =>
              /\ Exists(fs, Target(script))
              /\ pre[Target(script)] = LearnerDir => LearnerFree(fs[Target(script)])

C2_Witness ==
    /\ script = "ex08"
    /\ pc = "done"
    /\ force
    /\ pre["ex08-conflict-simple"] = LearnerDir
    /\ outcome = "ok"
    /\ IsRepo(fs, "ex08-conflict-simple")

\* C3, as stated: every finished run leaves the filesystem untouched or
\* fully provisioned (every statement succeeded), never in between.
C3_AsStated ==
    pc = "done" => (fs = pre \/ outcome = "ok")

\* C3, amended: every finished run ends in one of three ways: rejected by
\* the guard (or, for --update, by the missing remote) with status 1 and
\* the filesystem untouched; with every statement executed, the report
\* printed and status 0; or, when a statement raised (a git command run
\* with check=True exited non-zero), with status 1, no report and the
\* directories as the completed statements and the finally clause left
\* them, which may be a partially provisioned target.
C3_ThreeEndings ==
    pc = "done" =>
        \/ /\ outcome \in {"rejected", "missing"}
           /\ exit = 1
           /\ fs = pre
           /\ ~reported
        \/ /\ outcome = "ok"
           /\ exit = 0
           /\ reported
           /\ ran = 1..Len(Prog)
           /\ \A i \in failed : ~Prog[i].check
        \/ /\ outcome = "stepfail"
           /\ exit = 1
           /\ ~reported
           /\ cause \in {"ext", "state"}
           /\ \E i \in ran : \A j \in ran : j <= i /\ (Prog[i].op \in GitOps => i \in failed)

C3_Witness ==
    /\ script = "ex13"
    /\ pc = "done"
    /\ outcome = "stepfail"
    /\ IsRepo(fs, "ex13-rebase")
    /\ "feature-content" \in DOMAIN fs["ex13-rebase"].repo.refs
    /\ fs # pre

\* C4: in the remote scenarios, for every combination of existing
\* directories and of --force, no run deletes one of the two guarded
\* directories and is then rejected because of the other: a rejected run
\* has changed no directory.
C4_NoDeleteThenReject ==
    (script \in RemoteScripts /\ outcome = "rejected") =>
        /\ W = {}
        /\ fs[Remote(script)] = pre[Remote(script)]
        /\ fs[Target(script)] = pre[Target(script)]

C4_Witness ==
    /\ script \in RemoteScripts
    /\ pc = "done"
    /\ outcome = "rejected"
    /\ blame = Target(script)
    /\ ~Exists(pre, Remote(script))
    /\ ran = {1, 2}

\* C5, as stated: a scratch directory that exists before a run is never
\* deleted and never written into unless --force is given.
C5_ScratchGuarded ==
    \A d \in Scratch(script) :
        (pc # "idle" /\ Exists(pre, d) /\ ~force) => fs[d] = pre[d]

\* C6: when a git command that is not failure-tolerant (check=True) exits
\* non-zero, the run is over: no later statement is started, the report is
\* not printed, and the exit status is non-zero.
C6_FailureAborts ==
    \A i \in failed :
        Prog[i].check =>
            /\ pc = "done"
            /\ outcome = "stepfail"
            /\ exit >= 1
            /\ ~reported
            /\ \A j \in ran : j <= i

C6_Witness ==
    /\ pc = "done"
    /\ cause = "ext"
    /\ \E i \in failed : Prog[i].check /\ i < Len(Prog) /\ Prog[i + 1].op = "write"

\* C7: a run with --force that follows a run in which a statement raised
\* ends fully provisioned when no git command fails for an external
\* reason; if a statement of it fails because of a directory's state, the
\* failed run has not touched that directory (it is not a leftover of it).
C7_ForcedRetrySucceeds ==
    (pc = "done" /\ ~update /\ force /\ prevOutcome = "stepfail" /\ cause # "ext") =>
        \/ /\ outcome = "ok"
           /\ exit = 0
           /\ Exists(fs, Target(script))
           /\ \A d \in Scratch(script) : d \in W => ~Exists(fs, d)
        \/ /\ outcome = "stepfail"
           /\ cause = "state"
           /\ blame \notin prevW

C7_Witness ==
    /\ script = "ex17"
    /\ pc = "done"
    /\ force
    /\ prevOutcome = "stepfail"
    /\ {"remote-ex17.git", "ex17-pull-conflict"} \subseteq prevW
    /\ outcome = "ok"

\* C8, as stated: two --update runs in a row on a provisioned ex15, none
\* failing for an external reason, leave two distinct additional commits on
\* the bare remote's main, and the learner's clone still sees the remote as
\* it was when it was cloned.
C8_TwoUpdatesTwoCommits ==
    (script = "ex15" /\ pc = "done" /\ update /\ updRow = 2 /\ rowClean) =>
        LET main == MainOf(fs, "remote-repo.git")
        IN /\ Len(main) = rowBase + 2
           /\ main[rowBase + 1] # main[rowBase + 2]
           /\ IsRepo(fs, "ex15-remote")
           /\ BranchOf([refs |-> fs["ex15-remote"].repo.tracking], "main")
                  = SubSeq(main, 1, rowBase)

\* C9: no step of an ex15 --update run, successful or failed, takes a
\* commit away from the bare remote's main: main stays put or advances to
\* a descendant.
C9_RemoteAppendOnly ==
    [][(script = "ex15" /\ pc = "run" /\ update) =>
          IsPrefix(MainOf(fs, "remote-repo.git"), MainOf(fs', "remote-repo.git"))]_vars

C9_Witness ==
    /\ script = "ex15"
    /\ pc = "done"
    /\ update
    /\ outcome = "ok"
    /\ Len(MainOf(pre, "remote-repo.git")) = 1
    /\ Len(MainOf(fs, "remote-repo.git")) = 2

\* C10: ex15 --update with no remote-repo.git ends with exit status 1 and
\* the filesystem unchanged: no scratch directory is created or deleted, no
\* git command runs and the learner's clone is untouched.
C10_UpdateNeedsRemote ==
    (script = "ex15" /\ pc # "idle" /\ update /\ ~Exists(pre, "remote-repo.git")) =>
        /\ fs = pre
        /\ W = {}
        /\ failed = {}
        /\ \A i \in ran : Prog[i].op = "require"
        /\ pc = "done" => (exit = 1 /\ outcome = "missing" /\ ~reported)

C10_Witness ==
    /\ script = "ex15"
    /\ pc = "done"
    /\ update
    /\ outcome = "missing"
    /\ exit = 1
    /\ pre["ex15-remote"] = LearnerDir
    /\ Exists(fs, "_temp_push")


\* C11: an ex15 --update run never modifies the learner's clone ex15-remote:
\* at every point of the run and after it, successful or failed, with or
\* without --force, the directory (working tree, index, local branches,
\* remote-tracking refs) is what it was when the run was invoked.
C11_UpdateLeavesClone ==
    (script = "ex15" /\ update /\ pc # "idle") =>
        /\ fs["ex15-remote"] = pre["ex15-remote"]
        /\ "ex15-remote" \notin W

C11_Witness ==
    /\ script = "ex15"
    /\ pc = "done"
    /\ update
    /\ force
    /\ outcome = "ok"
    /\ IsRepo(fs, "ex15-remote")
    /\ Len(MainOf(fs, "remote-repo.git")) = 2
    /\ Len(fs["ex15-remote"].repo.tracking["main"]) = 1
    /\ Len(fs["ex15-remote"].repo.refs["main"]) = 2

Messages(commits) == [i \in 1..Len(commits) |-> commits[i].msg]

\* What provisioning left in a directory: the files of the working tree
\* with their contents, the checked-out branch, the branch names and the
\* commit messages of each branch in order.
ResultOf(d) ==
    IF d.kind # "dir" THEN [files |-> EmptyTree, head |-> "(absent)", branches |-> NoRefs]
    ELSE IF d.repo.kind # "repo" THEN [files |-> d.files, head |-> "(none)", branches |-> NoRefs]
    ELSE [files |-> d.files, head |-> d.repo.head,
          branches |-> [b \in DOMAIN d.repo.refs |-> Messages(d.repo.refs[b])]]

\* C12, as stated: two successive successful provisioning runs with --force,
\* in neither of which a git command failed for an external reason, leave
\* the same result in the target directory (and in the bare remote): the
\* same files with the same contents, the same checked-out branch, the same
\* branches with the same commit messages in the same order.
C12_ForceTwiceSame ==
    (/\ pc = "done" /\ outcome = "ok" /\ force /\ ~update /\ extAt = {}
     /\ prevOutcome = "ok" /\ prevForce /\ ~prevUpdate /\ prevExtAt = {}) =>
        \A d \in {Target(script), Remote(script)} \ {""} :
            ResultOf(fs[d]) = ResultOf(pre[d])

\* The merge a conflict scenario ends with: the branch HEAD is on, the
\* branch merged into it and the file both branches rewrote.
ConflictScripts == {"ex08", "ex09"}

FinalMerge(s) ==
    IF s = "ex08"
    THEN [into |-> "version-client", from |-> "version-interne", file |-> "message.txt"]
    ELSE [into |-> "design-v1", from |-> "design-v2", file |-> "page.html"]

ToleratedSteps(prog) ==
    {i \in 1..Len(prog) : prog[i].op \in GitOps /\ Tolerated(prog[i])}

\* C15, as stated: in each of ex08, ex09 and ex17 a successful provisioning
\* has run exactly one git statement with failure tolerated, a merge or a
\* pull, and every other git statement that exits non-zero ends the run.
C15_AsStated ==
    (script \in {"ex08", "ex09", "ex17"} /\ ~update /\ pc = "done") =>
        /\ outcome = "ok" =>
              /\ Cardinality(ran \cap ToleratedSteps(Prog)) = 1
              /\ \A i \in ran \cap ToleratedSteps(Prog) : Prog[i].op \in {"merge", "pull"}
        /\ (failed \ ToleratedSteps(Prog)) # {} => outcome = "stepfail"

\* C15, amended: in ex08 and ex09 exactly one git statement runs with
\* failure tolerated, the final merge of the other branch; in ex17 none
\* does, the script runs no merge and no pull, and a successful run leaves
\* the clone and the remote diverged so that the learner's own pull
\* conflicts.  In all three every other git statement that exits non-zero
\* ends the run without the report.
C15_ToleratedSteps ==
    /\ script \in ConflictScripts =>
          /\ ToleratedSteps(Prog) = {Len(Prog)}
          /\ Prog[Len(Prog)].op = "merge"
          /\ Prog[Len(Prog)].arg = FinalMerge(script).from
          /\ (pc = "done" /\ outcome = "ok") => ran \cap ToleratedSteps(Prog) = {Len(Prog)}
    /\ script = "ex17" =>
          /\ ToleratedSteps(Prog) = {}
          /\ \A i \in 1..Len(Prog) : Prog[i].op \notin {"merge", "pull"}
          /\ (pc = "done" /\ outcome = "ok") =>
                /\ failed = {}
                /\ ~IsPrefix(MainOf(fs, "remote-ex17.git"), MainOf(fs, "ex17-pull-conflict"))
                /\ ~IsPrefix(MainOf(fs, "ex17-pull-conflict"), MainOf(fs, "remote-ex17.git"))
    /\ (script \in {"ex08", "ex09", "ex17"} /\ (failed \ ToleratedSteps(Prog)) # {}) =>
          (pc = "done" /\ outcome = "stepfail" /\ ~reported)

C15_Witness ==
    /\ script = "ex17"
    /\ pc = "done"
    /\ outcome = "ok"
    /\ ran = 1..Len(Prog)
    /\ failed = {}
    /\ Len(MainOf(fs, "remote-ex17.git")) = 2
    /\ Len(MainOf(fs, "ex17-pull-conflict")) = 2
    /\ MainOf(fs, "remote-ex17.git") # MainOf(fs, "ex17-pull-conflict")

\* C16: after a successful provisioning of ex06 the repository has exactly
\* the branches main and feature-footer; feature-footer is main plus one
\* commit, so main has no commit of its own since the divergence and the
\* merge base of the two is main's tip; HEAD is on main with main's files
\* checked out, and merging feature-footer is a fast-forward.
C16_FastForwardReady ==
    (script = "ex06" /\ pc = "done" /\ outcome = "ok") =>
        LET d == fs["ex06-merge-ff"]
            r == d.repo
            main == BranchOf(r, "main")
            feature == BranchOf(r, "feature-footer")
        IN /\ IsRepo(fs, "ex06-merge-ff")
           /\ DOMAIN r.refs = {"main", "feature-footer"}
           /\ main # << >>
           /\ IsPrefix(main, feature)
           /\ Len(feature) = Len(main) + 1
           /\ CommonPrefix(main, feature) = main
           /\ r.head = "main"
           /\ d.files = TipTree(main)
           /\ ~MergeRefused(fs, "ex06-merge-ff", "feature-footer")
           /\ MergeConflicts(r, "feature-footer") = {}
           /\ BranchOf(GitMerge(fs, "ex06-merge-ff", "feature-footer")["ex06-merge-ff"].repo,
                       "main") = feature

C16_Witness ==
    /\ script = "ex06"
    /\ pc = "done"
    /\ outcome = "ok"
    /\ fs["ex06-merge-ff"].repo.head = "main"
    /\ Last(fs["ex06-merge-ff"].repo.refs["feature-footer"]).msg = "Ajout du footer"

\* C17: when a statement raises (a git command run with check=True exits
\* non-zero) the run ends and leaves the target directory and the bare
\* remote exactly as the completed statements left them: the failure path
\* removes and rewrites nothing of either.
C17_FailureKeepsTarget ==
    [][(pc = "run" /\ pc' = "done" /\ outcome' = "stepfail") =>
          \A d \in {Target(script), Remote(script)} \ {""} : fs'[d] = fs[d]]_vars

C17_Witness ==
    /\ script = "ex16"
    /\ pc = "done"
    /\ outcome = "stepfail"
    /\ cause = "ext"
    /\ Len(Prog) \in failed
    /\ Len(MainOf(fs, "remote-ex16.git")) = 1
    /\ Len(MainOf(fs, "ex16-push")) = 2
    /\ "README.md" \in DOMAIN fs["ex16-push"].files

\* C18, as stated: a provisioning run with --force that follows a killed
\* run, and in which no git command fails for an external reason, ends
\* fully provisioned; a rerun that fails does so only because of a
\* directory the killed run had not touched.
C18_RerunAfterKill ==
    (/\ pc = "done" /\ ~update /\ force /\ prevOutcome = "killed"
     /\ cause # "ext" /\ extAt = {}) =>
        \/ /\ outcome = "ok"
           /\ exit = 0
           /\ ran = 1..Len(Prog)
        \/ /\ outcome = "stepfail"
           /\ cause = "state"
           /\ blame \notin prevW

\* C19: in ex08 and ex09, once the final merge has run, whatever its exit
\* status (a conflict, a failure for another reason, or success), the run
\* does not fail: it goes on to print the report and ends with status 0,
\* whether or not the repository is in an unmerged state.
C19_MergeStatusIgnored ==
    (script \in ConflictScripts /\ pc \in {"run", "done"} /\ Len(Prog) \in ran) =>
        /\ outcome \in {"none", "ok"}
        /\ cause = "none"
        /\ pc = "done" => (outcome = "ok" /\ exit = 0 /\ reported)

C19_Witness ==
    /\ script = "ex09"
    /\ pc = "done"
    /\ outcome = "ok"
    /\ exit = 0
    /\ reported
    /\ Len(Prog) \in extAt
    /\ fs["ex09-conflict-complex"].repo.merging = "none"
    /\ fs["ex09-conflict-complex"].repo.unmerged = {}
    /\ ConflictBlocks(fs["ex09-conflict-complex"].files["page.html"]) = {}

\* Both invocations are past their guard and still running.
BothPastGuard == \A q \in Procs : conc[q].pc = "run" /\ conc[q].passed

\* C20: the guard does not exclude a second invocation.  All it ensures for
\* an invocation it lets through is that the directory was absent when that
\* invocation looked or that it was given --force; nothing about the other
\* invocation.  An invocation it rejects has changed nothing.
C20_GuardDoesNotExclude ==
    \A q \in Procs :
        /\ conc[q].passed => (conc[q].force \/ conc[q].sawAbsent)
        /\ conc[q].outcome = "rejected" => (~conc[q].passed /\ ~conc[q].wrote /\ ~conc[q].force)
        /\ conc[q].sawAbsent => conc[q].passed

\* Both invocations were given --force and are past the guard; the first
\* has written its files and initialised the repository and is about to
\* run git add, when the rmtree of the second has just deleted the
\* directory under it.
C20_Witness ==
    /\ script = "ex03"
    /\ BothPastGuard
    /\ \A q \in Procs : conc[q].force /\ conc[q].wrote
    /\ ConcCur(1).op = "add"
    /\ ConcCur(2).op = "mkdir"
    /\ ~Exists(fs, Target(script))

\* The lines of o that a does not keep.
ChangedLines(o, a) == {k \in 1..Len(o) : ~\E pr \in Matching(o, a) : pr[1] = k}

\* The working tree of directory state d is clean: it equals the index and
\* the commit HEAD is on, and no merge is in progress.
CleanTree(d) ==
    /\ d.files = d.repo.index
    /\ d.repo.index = HeadTree(d.repo)
    /\ d.repo.merging = "none"
    /\ d.repo.unmerged = {}

\* C21: after a successful provisioning of ex17 the remote's main is A, B
\* and the learner's main is A, C, with B "Mise en production v1.1.0" and C
\* "Configuration staging v1.0.1"; B and C change config.json only, and
\* lines of it in common; origin/main in the clone is still A, so the clone
\* is one commit ahead of it; the clone's working tree is clean and no
\* merge is in progress.
C21_Ex17Diverged ==
    (script = "ex17" /\ pc = "done" /\ outcome = "ok") =>
        LET d == fs["ex17-pull-conflict"]
            remote == MainOf(fs, "remote-ex17.git")
            local == MainOf(fs, "ex17-pull-conflict")
            tracked == BranchOf([refs |-> d.repo.tracking], "main")
        IN /\ IsRepo(fs, "ex17-pull-conflict")
           /\ IsRepo(fs, "remote-ex17.git")
           /\ Len(tracked) = 1
           /\ tracked[1].msg = "Initial commit : configuration de base"
           /\ Len(remote) = 2
           /\ Len(local) = 2
           /\ CommonPrefix(remote, local) = tracked
           /\ remote[2].msg = "Mise en production v1.1.0"
           /\ local[2].msg = "Configuration staging v1.0.1"
           /\ DiffFiles(tracked[1].tree, remote[2].tree) = {"config.json"}
           /\ DiffFiles(tracked[1].tree, local[2].tree) = {"config.json"}
           /\ ChangedLines(tracked[1].tree["config.json"], remote[2].tree["config.json"])
                 \cap ChangedLines(tracked[1].tree["config.json"], local[2].tree["config.json"])
                 # {}
           /\ d.repo.head = "main"
           /\ d.repo.origin = "remote-ex17.git"
           /\ IsPrefix(tracked, local) /\ Len(local) - Len(tracked) = 1
           /\ CleanTree(d)

C21_Witness ==
    /\ script = "ex17"
    /\ pc = "done"
    /\ outcome = "ok"
    /\ Last(MainOf(fs, "remote-ex17.git")).msg = "Mise en production v1.1.0"
    /\ Last(MainOf(fs, "ex17-pull-conflict")).msg = "Configuration staging v1.0.1"
    /\ fs["ex17-pull-conflict"].files["config.json"] = Content("build_config_local")

\* C22: after a successful base provisioning of ex15 the learner's main is
\* the remote's main plus the one commit "Ajout des consignes de
\* l'exercice", which is on no branch of the remote.  After the first
\* --update that follows and succeeds, the remote's main and the learner's
\* main each have exactly one commit after their common history, so neither
\* contains the other; and after any number of --update runs the learner's
\* main is not contained in the remote's main: the pull is no fast-forward.
C22_Ex15CloneAhead ==
    LET remote == MainOf(fs, "remote-repo.git")
        local == MainOf(fs, "ex15-remote")
        base == CommonPrefix(remote, local)
    IN /\ (script = "ex15" /\ pc = "done" /\ ~update /\ outcome = "ok") =>
              /\ remote # << >>
              /\ local = Append(remote, Last(local))
              /\ Last(local).msg = "Ajout des consignes de l'exercice"
              /\ DiffFiles(Last(remote).tree, Last(local).tree) = {"EXERCICE.md"}
              /\ fs["ex15-remote"].repo.tracking["main"] = remote
       /\ (script = "ex15" /\ pc = "done" /\ update /\ outcome = "ok" /\ updRow = 1) =>
              /\ base # << >>
              /\ Len(remote) = Len(base) + 1
              /\ Len(local) = Len(base) + 1
              /\ Last(remote).msg = "Mise a jour v1.1 : nouveautes et corrections"
              /\ Last(local).msg = "Ajout des consignes de l'exercice"
              /\ ~IsPrefix(remote, local)
       /\ (script = "ex15" /\ pc = "done" /\ update /\ updRow >= 1) =>
              ~IsPrefix(local, remote)

C22_Witness ==
    /\ script = "ex15"
    /\ pc = "done"
    /\ update
    /\ outcome = "ok"
    /\ updRow = 1
    /\ Len(MainOf(fs, "remote-repo.git")) = 2
    /\ Len(MainOf(fs, "ex15-remote")) = 2
    /\ Last(MainOf(fs, "remote-repo.git")) # Last(MainOf(fs, "ex15-remote"))

\* C23: after a successful provisioning of ex16 the bare remote has the one
\* branch main; the learner's main, its remote-tracking ref origin/main and
\* the remote's main are the same commits, ending in "Ajout du README": the
\* clone is neither ahead of nor behind origin.
C23_Ex16InSync ==
    (script = "ex16" /\ pc = "done" /\ outcome = "ok") =>
        LET d == fs["ex16-push"]
            remote == MainOf(fs, "remote-ex16.git")
            local == MainOf(fs, "ex16-push")
        IN /\ IsRepo(fs, "ex16-push")
           /\ IsRepo(fs, "remote-ex16.git")
           /\ DOMAIN fs["remote-ex16.git"].repo.refs = {"main"}
           /\ DOMAIN d.repo.tracking = {"main"}
           /\ d.repo.origin = "remote-ex16.git"
           /\ d.repo.head = "main"
           /\ local = remote
           /\ d.repo.tracking["main"] = remote
           /\ Len(remote) = 2
           /\ Last(remote).msg = "Ajout du README"
           /\ "README.md" \in DOMAIN Last(remote).tree

C23_Witness ==
    /\ script = "ex16"
    /\ pc = "done"
    /\ outcome = "ok"
    /\ Len(MainOf(fs, "remote-ex16.git")) = 2
    /\ MainOf(fs, "ex16-push") = fs["ex16-push"].repo.tracking["main"]
    /\ ~Exists(fs, "_temp_ex16")

\* The current run has created scratch directory d or cloned into it.
UsedScratch(d) ==
    \E i \in ran :
        \/ Prog[i].op = "mkdir" /\ Prog[i].cwd = d
        \/ Prog[i].op = "clone" /\ Prog[i].val = d /\ i \notin failed

\* The run is inside the procedure's work on scratch directory d: in the
\* try block whose finally clause removes d, or at that removal.
InProcedure(d) ==
    /\ Running
    /\ \/ Cur.fin = d
       \/ Cur.op = "rmtree" /\ Cur.cwd = d

\* C24: in ex15 (base and --update), ex16 and ex17, a scratch directory the
\* run has created or cloned into no longer exists once the run has left
\* the try block around it, whether it left it normally or by a raised
\* statement; and after a successful provisioning the origin of the
\* learner's clone is the bare remote.
C24_ScratchRemoved ==
    script \in RemoteScripts =>
        /\ \A d \in Scratch(script) :
              (pc \in {"run", "done"} /\ UsedScratch(d) /\ ~InProcedure(d)) =>
                  ~Exists(fs, d)
        /\ (pc = "done" /\ outcome = "ok" /\ ~update) =>
              /\ IsRepo(fs, Target(script))
              /\ fs[Target(script)].repo.origin = Remote(script)
              /\ fs[Target(script)].repo.origin \notin Scratch(script)

\* A cloned scratch directory removed on a failure path: the push of the
\* colleague's commit in ex17 fails, the finally clause has removed
\* _temp_remote_ex17, and the learner's clone points at the bare remote.
C24_Witness ==
    /\ script = "ex17"
    /\ pc = "done"
    /\ outcome = "stepfail"
    /\ UsedScratch("_temp_remote_ex17")
    /\ UsedScratch("_temp_ex17")
    /\ \E i \in failed : Prog[i].op = "push"
    /\ ~Exists(fs, "_temp_remote_ex17")
    /\ ~Exists(fs, "_temp_ex17")
    /\ fs["ex17-pull-conflict"].repo.origin = "remote-ex17.git"

\* C25: after a successful provisioning of ex20 main is the only branch, a
\* chain of exactly six commits v1 .. v6; test.sh passes on commits 1 to 3
\* and fails on commits 4 to 6, so the first commit is good, HEAD is bad,
\* once bad the history stays bad, and the first bad commit is the fourth,
\* "v4: refactoring du code".
C25_BisectHistory ==
    (script = "ex20" /\ pc = "done" /\ outcome = "ok") =>
        LET r == fs["ex20-bisect"].repo
            main == BranchOf(r, "main")
            bad == {i \in 1..Len(main) : ~TestPasses(main[i].tree)}
        IN /\ IsRepo(fs, "ex20-bisect")
           /\ DOMAIN r.refs = {"main"}
           /\ r.head = "main"
           /\ Len(main) = 6
           /\ Messages(main) = << "v1: add et multiply de base", "v2: ajout de subtract",
                                  "v3: ajout de divide", "v4: refactoring du code",
                                  "v5: ajout de power", "v6: ajout de modulo" >>
           /\ 1 \notin bad
           /\ Len(main) \in bad
           /\ \A i \in bad : \A j \in i..Len(main) : j \in bad
           /\ bad = 4..6
           /\ \A i \in 1..3 : MultiplyOf(main[i].tree["calc.js"], 4, 5) = 20
           /\ \A i \in 4..6 : MultiplyOf(main[i].tree["calc.js"], 4, 5) = 9

C25_Witness ==
    /\ script = "ex20"
    /\ pc = "done"
    /\ outcome = "ok"
    /\ Len(MainOf(fs, "ex20-bisect")) = 6
    /\ TestPasses(MainOf(fs, "ex20-bisect")[3].tree)
    /\ ~TestPasses(MainOf(fs, "ex20-bisect")[4].tree)
    /\ fs["ex20-bisect"].files["calc.js"] = CalcJs(6)

\* C26: after a successful provisioning of ex19 HEAD is on release with
\* release's files checked out; release is the initial commit alone, like
\* main; feature-a is release plus exactly three commits, the WIP commit,
\* the bugfix commit and the formatCurrency commit in that order, and none
\* of the three is on release.
C26_CherryPickReady ==
    (script = "ex19" /\ pc = "done" /\ outcome = "ok") =>
        LET d == fs["ex19-cherry-pick"]
            r == d.repo
            release == BranchOf(r, "release")
            feature == BranchOf(r, "feature-a")
        IN /\ IsRepo(fs, "ex19-cherry-pick")
           /\ DOMAIN r.refs = {"main", "release", "feature-a"}
           /\ r.head = "release"
           /\ Messages(release) = << "Initial commit : utilitaires de base" >>
           /\ release = BranchOf(r, "main")
           /\ IsPrefix(release, feature)
           /\ Len(feature) = Len(release) + 3
           /\ Messages(SubSeq(feature, 2, 4))
                 = << "WIP: ajout de formatDateTime",
                      "Bugfix: calculateTotal prend en compte les quantites",
                      "Ajout de formatCurrency" >>
           /\ \A i \in 2..4 : \A j \in 1..Len(release) : feature[i] # release[j]
           /\ d.files = TipTree(release)
           /\ d.files["utils.js"] = Content("build_utils_base")
           /\ CleanTree(d)

C26_Witness ==
    /\ script = "ex19"
    /\ pc = "done"
    /\ outcome = "ok"
    /\ fs["ex19-cherry-pick"].repo.head = "release"
    /\ Len(fs["ex19-cherry-pick"].repo.refs["feature-a"]) = 4
    /\ Len(fs["ex19-cherry-pick"].repo.refs["release"]) = 1
    /\ fs["ex19-cherry-pick"].repo.refs["feature-a"][3].msg
          = "Bugfix: calculateTotal prend en compte les quantites"

\* C27: after a successful provisioning of ex18 main is the only branch, a
\* chain of four commits; v0.9.0 is the only tag, an annotated one, on the
\* third commit, one commit behind HEAD; no tag is on the last commit.
C27_OneTagBehindHead ==
    (script = "ex18" /\ pc = "done" /\ outcome = "ok") =>
        LET r == fs["ex18-tags"].repo
            main == BranchOf(r, "main")
        IN /\ IsRepo(fs, "ex18-tags")
           /\ DOMAIN r.refs = {"main"}
           /\ r.head = "main"
           /\ Len(main) = 4
           /\ Messages(main) = << "Initial commit : version 0.1",
                                  "Ajout du chargement de configuration (v0.5)",
                                  "Version beta avec interface UI (v0.9)",
                                  "Release stable v1.0" >>
           /\ DOMAIN r.tags = {"v0.9.0"}
           /\ r.tags["v0.9.0"].annotated
           /\ r.tags["v0.9.0"].msg = "Version 0.9.0 - Beta"
           /\ r.tags["v0.9.0"].at = SubSeq(main, 1, 3)
           /\ Len(main) - Len(r.tags["v0.9.0"].at) = 1
           /\ \A t \in DOMAIN r.tags : r.tags[t].at # main

C27_Witness ==
    /\ script = "ex18"
    /\ pc = "done"
    /\ outcome = "ok"
    /\ "v0.9.0" \in DOMAIN fs["ex18-tags"].repo.tags
    /\ Last(fs["ex18-tags"].repo.tags["v0.9.0"].at).msg = "Version beta avec interface UI (v0.9)"
    /\ Last(MainOf(fs, "ex18-tags")).msg = "Release stable v1.0"

\* C29: after a successful provisioning of ex04 the repository has exactly
\* one commit; the index equals that commit, so nothing is staged; the
\* working tree differs from the commit in exactly config.yml and README.md,
\* which hold the modified contents while the commit holds the original
\* ones; EXERCICE.md is as committed.
C29_UnstagedChanges ==
    (script = "ex04" /\ pc = "done" /\ outcome = "ok") =>
        LET d == fs["ex04-restore"]
            r == d.repo
            commits == HeadCommits(r)
        IN /\ IsRepo(fs, "ex04-restore")
           /\ DOMAIN r.refs = {r.head}
           /\ Len(commits) = 1
           /\ commits[1].msg = "Initial commit : configuration de base"
           /\ r.index = commits[1].tree
           /\ DiffFiles(r.index, HeadTree(r)) = {}
           /\ DiffFiles(d.files, commits[1].tree) = {"config.yml", "README.md"}
           /\ DOMAIN d.files = {"EXERCICE.md", "config.yml", "README.md"}
           /\ d.files["config.yml"] = ConfigYml(TRUE)
           /\ d.files["README.md"] = ReadmeMd(TRUE)
           /\ commits[1].tree["config.yml"] = ConfigYml(FALSE)
           /\ commits[1].tree["README.md"] = ReadmeMd(FALSE)
           /\ d.files["EXERCICE.md"] = commits[1].tree["EXERCICE.md"]
           /\ r.merging = "none"

C29_Witness ==
    /\ script = "ex04"
    /\ pc = "done"
    /\ outcome = "ok"
    /\ Len(HeadCommits(fs["ex04-restore"].repo)) = 1
    /\ fs["ex04-restore"].files["config.yml"] # fs["ex04-restore"].repo.index["config.yml"]
    /\ fs["ex04-restore"].files["README.md"] # fs["ex04-restore"].repo.index["README.md"]

\* The files that change from one commit to the next along commits, from
\* position from + 1 on.
TouchedAfter(commits, from) ==
    UNION {DiffFiles(commits[i].tree, commits[i + 1].tree) : i \in from..(Len(commits) - 1)}

\* C28: after a successful provisioning of ex13 the branches are main and
\* feature-content; their common history is the initial commit alone and
\* each has exactly two commits after it; the commits of main after the
\* fork change index.html only, those of feature-content content.md only;
\* HEAD is on feature-content with its files checked out and a clean tree.
C28_RebaseReady ==
    (script = "ex13" /\ pc = "done" /\ outcome = "ok") =>
        LET d == fs["ex13-rebase"]
            r == d.repo
            main == BranchOf(r, "main")
            feature == BranchOf(r, "feature-content")
            fork == CommonPrefix(main, feature)
        IN /\ IsRepo(fs, "ex13-rebase")
           /\ DOMAIN r.refs = {"main", "feature-content"}
           /\ Messages(fork) = << "Initial commit" >>
           /\ Len(main) = Len(fork) + 2
           /\ Len(feature) = Len(fork) + 2
           /\ Messages(main) = << "Initial commit", "Ajout de la navigation", "Ajout du footer" >>
           /\ Messages(feature) = << "Initial commit", "Ajout article 1 : Introduction a Git",
                                     "Ajout article 2 : Les branches" >>
           /\ TouchedAfter(main, Len(fork)) = {"index.html"}
           /\ TouchedAfter(feature, Len(fork)) = {"content.md"}
           /\ TouchedAfter(main, Len(fork)) \cap TouchedAfter(feature, Len(fork)) = {}
           /\ r.head = "feature-content"
           /\ d.files = TipTree(feature)
           /\ CleanTree(d)

C28_Witness ==
    /\ script = "ex13"
    /\ pc = "done"
    /\ outcome = "ok"
    /\ fs["ex13-rebase"].repo.head = "feature-content"
    /\ Len(fs["ex13-rebase"].repo.refs["main"]) = 3
    /\ Len(fs["ex13-rebase"].repo.refs["feature-content"]) = 3
    /\ "content.md" \in DOMAIN fs["ex13-rebase"].files
    /\ fs["ex13-rebase"].files["index.html"] = Content("build_index_html_base")

=============================================================================
